---- MODULE Spec2Model ----
(***************************************************************************)
(* Model of the wall-perimeter tracer and perimeter normaliser of          *)
(* tools/png2obj/png2obj.py (surviveler): BlocksMap.build walking the      *)
(* lattice with the POSSIBLE_DIRECTIONS / RULES tables, followed by        *)
(* remove_internal_edge_points and normalized_perimeter.                   *)
(*                                                                         *)
(* Coordinates are screen coordinates: x grows to the right, y grows       *)
(* downwards.  A box (cell) is <<x, y>>; a lattice vertex <<x, y>> is the  *)
(* top-left corner of box <<x, y>>.  A block is a non-walkable box.        *)
(***************************************************************************)
EXTENDS Integers, Sequences, FiniteSets, TLC

VARIABLES
    map,              \* the blocks map: the set of boxes b with map[b] = 1
    map_size,         \* <<width, height>>
    order,            \* the start candidates, in the order build considers them
    iv,               \* position of the current candidate in order
    tracked_vertices, \* the Counter: vertex -> count (absent = 0)
    first_vertex,     \* start vertex of the current walk
    wall_vertex,      \* position of the walker
    versor,           \* direction of the walker's last step (STILL at start)
    wall_perimeter,   \* vertices appended by the current walk
    ret,              \* the perimeters built so far
    pc,               \* position in build
    steps,            \* history: every walker step taken, in order: the number of
                      \* its walk, the walk's first vertex, the vertex passed, the
                      \* versor on arrival and the versor chosen
    loop,             \* normaliser input: a closed loop of lattice points
    other,            \* normaliser input: the same cycle from another start
    out1,             \* normaliser output (first application)
    out2,             \* normaliser output (second application)
    npc,              \* position in the normaliser run
    mesh,             \* exporter input: a list of faces, each a list of vertices
    mesh_b,           \* exporter input: the faces of mesh in another order
    cw,               \* the arguments of create_wavefront
    text,             \* exporter output: the lines joined by '\n'
    text_b,           \* exporter output for mesh_b
    epc,              \* position in the exporter run
    cw_status,        \* create_wavefront: what it raised and the faces its loop examined
    cw_file,          \* create_wavefront: the file at dst
    matrix,           \* the walkable matrix: a list of rows of 0 (block) / 1 (walkable)
    holes,            \* the hole seeds, in half units: <<2x + 1, 2y + 1>> is (x + 0.5, y + 0.5)
    triangles,        \* what triangulate_walls returned
    tri_called,       \* whether triangle.triangulate was called
    segments,         \* the segments triangulate_walls built
    tri_assert,       \* the assertion of triangulate_walls that failed, or "none"
    dst_file,         \* the file at the destination path
    ppc,              \* position in matrix2obj
    arg_xy,           \* grid lookup: the lattice vertex looked up
    vboxes,           \* grid lookup: what vertex2boxes returned
    block_matrix,     \* grid lookup: what boxes2block_matrix returned
    map_before,       \* history: the blocks map when the lookup was called
    lpc,              \* position in the grid lookup
    bl_walls,         \* bleveler: the argument of wall_perimeters_to_verts_edges
    bl_verts,         \* bleveler: the vertices returned
    bl_edges,         \* bleveler: the edges returned
    bl_ret,           \* bleveler: what build_walls returned
    bpc,              \* position in the bleveler run
    heap,             \* the list objects of a call: object -> its elements
    heap_before,      \* history: the list objects when the call was made
    result,           \* the object the call returned, or "None"
    fpc               \* the function called on the list objects, and where the call is

vars == <<map, map_size, order, iv, tracked_vertices, first_vertex, wall_vertex,
          versor, wall_perimeter, ret, pc, steps, loop, other, out1, out2, npc,
          mesh, mesh_b, cw, text, text_b, epc, cw_status, cw_file,
          matrix, holes, triangles, tri_called, segments, tri_assert, dst_file, ppc,
          arg_xy, vboxes, block_matrix, map_before, lpc,
          bl_walls, bl_verts, bl_edges, bl_ret, bpc,
          heap, heap_before, result, fpc>>

buildVars == <<map, map_size, order, iv, tracked_vertices, first_vertex,
               wall_vertex, versor, wall_perimeter, ret, pc, steps>>

normVars == <<loop, other, out1, out2, npc>>

exportVars == <<mesh, mesh_b, cw, text, text_b, epc, cw_status, cw_file>>

pipeVars == <<matrix, holes, triangles, tri_called, segments, tri_assert,
              dst_file, ppc>>

lookupVars == <<arg_xy, vboxes, block_matrix, map_before, lpc>>

blevelerVars == <<bl_walls, bl_verts, bl_edges, bl_ret, bpc>>

frameVars == <<heap, heap_before, result, fpc>>

\* The variables of build other than the blocks map and the result.
walkVars == <<order, iv, tracked_vertices, first_vertex, wall_vertex, versor,
              wall_perimeter, pc, steps>>

\* What a build step, a normaliser step and an exporter step leave alone.
notBuild == <<normVars, exportVars, pipeVars, lookupVars, blevelerVars, frameVars>>
notNorm == <<buildVars, exportVars, pipeVars, lookupVars, blevelerVars, frameVars>>
notExport == <<buildVars, normVars, pipeVars, lookupVars, blevelerVars, frameVars>>
notPipe == <<lookupVars, blevelerVars, frameVars>>

---------------------------------------------------------------------------
\* Bounds of the model.

MaxW == 3
MaxH == 3

\* Largest number of boxes of a grid that build is run on.
MaxCells == 9

\* Largest number of start candidates (width * height) of the grids whose
\* candidates are tried in every order.
MaxCands == 6

\* Normaliser inputs: loops of at most MaxCycle points with x in 0..MaxPX and
\* y in 0..MaxPY.
MaxPX == 2
MaxPY == 2
MaxCycle == 10

---------------------------------------------------------------------------
\* Directions (png2obj.py 66-71).

LEFT == <<-1, 0>>
UP == <<0, -1>>
RIGHT == <<1, 0>>
DOWN == <<0, 1>>
STILL == <<0, 0>>

Bit == {0, 1}

BlockMatrices == {<<<<a, b>>, <<c, d>>>> : a \in Bit, b \in Bit, c \in Bit, d \in Bit}

\* The 4-bit key of a 2x2 block matrix ((upleft, upright), (downleft, downright)).
MatrixKey(m) == 8 * m[1][1] + 4 * m[1][2] + 2 * m[2][1] + m[2][2]

\* POSSIBLE_DIRECTIONS with the last entry a copy of the one before it.
POSSIBLE_DIRECTIONS_FullIsBorder ==
    [m \in BlockMatrices |->
        CASE MatrixKey(m) = 0 -> <<>>
          [] MatrixKey(m) = 1 -> <<RIGHT, DOWN>>
          [] MatrixKey(m) = 2 -> <<LEFT, DOWN>>
          [] MatrixKey(m) = 3 -> <<LEFT, RIGHT>>
          [] MatrixKey(m) = 4 -> <<UP, RIGHT>>
          [] MatrixKey(m) = 5 -> <<UP, DOWN>>
          [] MatrixKey(m) = 6 -> <<LEFT, UP, RIGHT, DOWN>>
          [] MatrixKey(m) = 7 -> <<LEFT, UP>>
          [] MatrixKey(m) = 8 -> <<LEFT, UP>>
          [] MatrixKey(m) = 9 -> <<LEFT, UP, RIGHT, DOWN>>
          [] MatrixKey(m) = 10 -> <<UP, DOWN>>
          [] MatrixKey(m) = 11 -> <<UP, RIGHT>>
          [] MatrixKey(m) = 12 -> <<LEFT, RIGHT>>
          [] MatrixKey(m) = 13 -> <<LEFT, DOWN>>
          [] MatrixKey(m) = 14 -> <<RIGHT, DOWN>>
          [] OTHER -> <<RIGHT, DOWN>>]

\* The per-configuration possible directions (png2obj.py 84-117), keyed by
\* ((upleft, upright), (downleft, downright)), 1 = block.
POSSIBLE_DIRECTIONS ==
    [m \in BlockMatrices |->
        CASE MatrixKey(m) = 0 -> <<>>
          [] MatrixKey(m) = 1 -> <<RIGHT, DOWN>>
          [] MatrixKey(m) = 2 -> <<LEFT, DOWN>>
          [] MatrixKey(m) = 3 -> <<LEFT, RIGHT>>
          [] MatrixKey(m) = 4 -> <<UP, RIGHT>>
          [] MatrixKey(m) = 5 -> <<UP, DOWN>>
          [] MatrixKey(m) = 6 -> <<LEFT, UP, RIGHT, DOWN>>
          [] MatrixKey(m) = 7 -> <<LEFT, UP>>
          [] MatrixKey(m) = 8 -> <<LEFT, UP>>
          [] MatrixKey(m) = 9 -> <<LEFT, UP, RIGHT, DOWN>>
          [] MatrixKey(m) = 10 -> <<UP, DOWN>>
          [] MatrixKey(m) = 11 -> <<UP, RIGHT>>
          [] MatrixKey(m) = 12 -> <<LEFT, RIGHT>>
          [] MatrixKey(m) = 13 -> <<LEFT, DOWN>>
          [] MatrixKey(m) = 14 -> <<RIGHT, DOWN>>
          [] OTHER -> <<>>]

\* RULES with the walker crossing a saddle vertex straight on.
RULES_SaddleStraight ==
    [m \in BlockMatrices |->
        CASE MatrixKey(m) = 0 ->
                (STILL :> STILL @@ UP :> UP @@ LEFT :> LEFT @@ RIGHT :> RIGHT @@ DOWN :> DOWN)
          [] MatrixKey(m) = 1 -> (STILL :> RIGHT @@ UP :> RIGHT @@ LEFT :> DOWN)
          [] MatrixKey(m) = 2 -> (STILL :> DOWN @@ UP :> LEFT @@ RIGHT :> DOWN)
          [] MatrixKey(m) = 3 -> (STILL :> RIGHT @@ RIGHT :> RIGHT @@ LEFT :> LEFT)
          [] MatrixKey(m) = 4 -> (STILL :> UP @@ LEFT :> UP @@ DOWN :> RIGHT)
          [] MatrixKey(m) = 5 -> (STILL :> UP @@ UP :> UP @@ DOWN :> DOWN)
          [] MatrixKey(m) = 6 ->
                (STILL :> RIGHT @@ UP :> UP @@ LEFT :> LEFT @@ RIGHT :> RIGHT @@ DOWN :> DOWN)
          [] MatrixKey(m) = 7 -> (STILL :> UP @@ RIGHT :> UP @@ DOWN :> LEFT)
          [] MatrixKey(m) = 8 -> (STILL :> LEFT @@ RIGHT :> UP @@ DOWN :> LEFT)
          [] MatrixKey(m) = 9 ->
                (STILL :> RIGHT @@ UP :> UP @@ DOWN :> DOWN @@ LEFT :> LEFT @@ RIGHT :> RIGHT)
          [] MatrixKey(m) = 10 -> (STILL :> UP @@ UP :> UP @@ DOWN :> DOWN)
          [] MatrixKey(m) = 11 -> (STILL :> RIGHT @@ LEFT :> UP @@ DOWN :> RIGHT)
          [] MatrixKey(m) = 12 -> (STILL :> RIGHT @@ LEFT :> LEFT @@ RIGHT :> RIGHT)
          [] MatrixKey(m) = 13 -> (STILL :> LEFT @@ UP :> LEFT @@ RIGHT :> DOWN)
          [] MatrixKey(m) = 14 -> (STILL :> RIGHT @@ UP :> RIGHT @@ LEFT :> DOWN)
          [] OTHER ->
                (STILL :> STILL @@ UP :> STILL @@ DOWN :> STILL @@ LEFT :> STILL @@ RIGHT :> STILL)]

\* RULES with the start of ((1, 1), (1, 0)) heading DOWN instead of RIGHT.
RULES_InnerStartDown ==
    [m \in BlockMatrices |->
        CASE MatrixKey(m) = 0 ->
                (STILL :> STILL @@ UP :> UP @@ LEFT :> LEFT @@ RIGHT :> RIGHT @@ DOWN :> DOWN)
          [] MatrixKey(m) = 1 -> (STILL :> RIGHT @@ UP :> RIGHT @@ LEFT :> DOWN)
          [] MatrixKey(m) = 2 -> (STILL :> DOWN @@ UP :> LEFT @@ RIGHT :> DOWN)
          [] MatrixKey(m) = 3 -> (STILL :> RIGHT @@ RIGHT :> RIGHT @@ LEFT :> LEFT)
          [] MatrixKey(m) = 4 -> (STILL :> UP @@ LEFT :> UP @@ DOWN :> RIGHT)
          [] MatrixKey(m) = 5 -> (STILL :> UP @@ UP :> UP @@ DOWN :> DOWN)
          [] MatrixKey(m) = 6 ->
                (STILL :> RIGHT @@ UP :> RIGHT @@ LEFT :> DOWN @@ RIGHT :> UP @@ DOWN :> LEFT)
          [] MatrixKey(m) = 7 -> (STILL :> UP @@ RIGHT :> UP @@ DOWN :> LEFT)
          [] MatrixKey(m) = 8 -> (STILL :> LEFT @@ RIGHT :> UP @@ DOWN :> LEFT)
          [] MatrixKey(m) = 9 ->
                (STILL :> RIGHT @@ UP :> LEFT @@ DOWN :> RIGHT @@ LEFT :> UP @@ RIGHT :> DOWN)
          [] MatrixKey(m) = 10 -> (STILL :> UP @@ UP :> UP @@ DOWN :> DOWN)
          [] MatrixKey(m) = 11 -> (STILL :> RIGHT @@ LEFT :> UP @@ DOWN :> RIGHT)
          [] MatrixKey(m) = 12 -> (STILL :> RIGHT @@ LEFT :> LEFT @@ RIGHT :> RIGHT)
          [] MatrixKey(m) = 13 -> (STILL :> LEFT @@ UP :> LEFT @@ RIGHT :> DOWN)
          [] MatrixKey(m) = 14 -> (STILL :> DOWN @@ UP :> RIGHT @@ LEFT :> DOWN)
          [] OTHER ->
                (STILL :> STILL @@ UP :> STILL @@ DOWN :> STILL @@ LEFT :> STILL @@ RIGHT :> STILL)]

\* The transition table (png2obj.py 120-153): configuration -> (versor of
\* the last step -> versor of the next step); STILL is the start of a walk.
RULES ==
    [m \in BlockMatrices |->
        CASE MatrixKey(m) = 0 ->
                (STILL :> STILL @@ UP :> UP @@ LEFT :> LEFT @@ RIGHT :> RIGHT @@ DOWN :> DOWN)
          [] MatrixKey(m) = 1 -> (STILL :> RIGHT @@ UP :> RIGHT @@ LEFT :> DOWN)
          [] MatrixKey(m) = 2 -> (STILL :> DOWN @@ UP :> LEFT @@ RIGHT :> DOWN)
          [] MatrixKey(m) = 3 -> (STILL :> RIGHT @@ RIGHT :> RIGHT @@ LEFT :> LEFT)
          [] MatrixKey(m) = 4 -> (STILL :> UP @@ LEFT :> UP @@ DOWN :> RIGHT)
          [] MatrixKey(m) = 5 -> (STILL :> UP @@ UP :> UP @@ DOWN :> DOWN)
          [] MatrixKey(m) = 6 ->
                (STILL :> RIGHT @@ UP :> RIGHT @@ LEFT :> DOWN @@ RIGHT :> UP @@ DOWN :> LEFT)
          [] MatrixKey(m) = 7 -> (STILL :> UP @@ RIGHT :> UP @@ DOWN :> LEFT)
          [] MatrixKey(m) = 8 -> (STILL :> LEFT @@ RIGHT :> UP @@ DOWN :> LEFT)
          [] MatrixKey(m) = 9 ->
                (STILL :> RIGHT @@ UP :> LEFT @@ DOWN :> RIGHT @@ LEFT :> UP @@ RIGHT :> DOWN)
          [] MatrixKey(m) = 10 -> (STILL :> UP @@ UP :> UP @@ DOWN :> DOWN)
          [] MatrixKey(m) = 11 -> (STILL :> RIGHT @@ LEFT :> UP @@ DOWN :> RIGHT)
          [] MatrixKey(m) = 12 -> (STILL :> RIGHT @@ LEFT :> LEFT @@ RIGHT :> RIGHT)
          [] MatrixKey(m) = 13 -> (STILL :> LEFT @@ UP :> LEFT @@ RIGHT :> DOWN)
          [] MatrixKey(m) = 14 -> (STILL :> RIGHT @@ UP :> RIGHT @@ LEFT :> DOWN)
          [] OTHER ->
                (STILL :> STILL @@ UP :> STILL @@ DOWN :> STILL @@ LEFT :> STILL @@ RIGHT :> STILL)]

\* sum_vectors subtracting the second vector.
sum_vectors_Minus(v1, v2) == <<v1[1] - v2[1], v1[2] - v2[2]>>

\* sum_vectors adding the first components only.
sum_vectors_FirstOnly(v1, v2) == <<v1[1] + v2[1], v1[2]>>

sum_vectors(v1, v2) == <<v1[1] + v2[1], v1[2] + v2[2]>>


---------------------------------------------------------------------------
\* Python's ordering of tuples and of lists of tuples.

Range(s) == {s[i] : i \in 1..Len(s)}

\* (x1, y1) < (x2, y2)
VertexLess(a, b) == a[1] < b[1] \/ (a[1] = b[1] /\ a[2] < b[2])

\* max instead of min.
MinVertex_Max(s) == CHOOSE v \in Range(s) : \A u \in Range(s) : ~VertexLess(v, u)

\* min(wall_perimeter)
MinVertex(s) == CHOOSE v \in Range(s) : \A u \in Range(s) : ~VertexLess(u, v)

RECURSIVE ListLess(_, _)
\* p < q for two lists of vertices
ListLess(p, q) ==
    IF q = <<>> THEN FALSE
    ELSE IF p = <<>> THEN TRUE
    ELSE IF VertexLess(Head(p), Head(q)) THEN TRUE
    ELSE IF VertexLess(Head(q), Head(p)) THEN FALSE
    ELSE ListLess(Tail(p), Tail(q))

---------------------------------------------------------------------------
\* The perimeter normaliser.

RECURSIVE KeptMiddle(_, _)
\* The loop body of remove_internal_edge_points for i, i+1, ... (1-based i is
\* the middle vertex of the triple).
KeptMiddle(vertices, i) ==
    IF i > Len(vertices) - 1 THEN <<>>
    ELSE LET dx1 == vertices[i][1] - vertices[i - 1][1]
             dy1 == vertices[i][2] - vertices[i - 1][2]
             dx2 == vertices[i + 1][1] - vertices[i][1]
             dy2 == vertices[i + 1][2] - vertices[i][2]
         IN  (IF (dx1 # dx2) \/ (dy1 # dy2) THEN <<vertices[i]>> ELSE <<>>)
                \o KeptMiddle(vertices, i + 1)

\* remove_internal_edge_points keeping every point.
remove_internal_edge_points_KeepAll(vertices) == vertices

\* remove_internal_edge_points with the loop one iteration short.
remove_internal_edge_points_ShortRange(vertices) ==
    <<vertices[1]>> \o KeptMiddle(SubSeq(vertices, 1, Len(vertices) - 1), 2)
        \o <<vertices[Len(vertices)]>>

remove_internal_edge_points(vertices) ==
    <<vertices[1]>> \o KeptMiddle(vertices, 2) \o <<vertices[Len(vertices)]>>

RECURSIVE RemoveContiguousFrom(_, _)
\* The while loop of remove_contiguous_values, from (1-based) position i.
RemoveContiguousFrom(lst, i) ==
    IF i < Len(lst)
    THEN IF lst[i] = lst[i + 1]
         THEN RemoveContiguousFrom(SubSeq(lst, 1, i - 1) \o SubSeq(lst, i + 1, Len(lst)), i)
         ELSE RemoveContiguousFrom(lst, i + 1)
    ELSE lst

remove_contiguous_values(lst) == RemoveContiguousFrom(lst, 1)

\* deque.rotate(1): the last element becomes the first.
Rotate1(deq) == <<deq[Len(deq)]>> \o SubSeq(deq, 1, Len(deq) - 1)

RECURSIVE RotateTo(_, _)
\* while deq[0] != minimum: deq.rotate(1)
RotateTo(deq, minimum) ==
    IF deq[1] # minimum THEN RotateTo(Rotate1(deq), minimum) ELSE deq

\* normalized_perimeter rotating the open cycle and never re-appending the
\* first point.
normalized_perimeter_NoReappend(wall_perimeter_) ==
    LET open == SubSeq(wall_perimeter_, 1, Len(wall_perimeter_) - 1)
    IN  remove_contiguous_values(RotateTo(open, MinVertex(open)))

\* normalized_perimeter without the rotation to the smallest point.
normalized_perimeter_NoRotate(wall_perimeter_) ==
    remove_contiguous_values(Append(wall_perimeter_, wall_perimeter_[1]))

normalized_perimeter(wall_perimeter_) ==
    LET deq == RotateTo(wall_perimeter_, MinVertex(wall_perimeter_))
    IN  remove_contiguous_values(Append(deq, deq[1]))

\* The two calls build makes on a finished walk (png2obj.py 447-448).
Normalize(p) == normalized_perimeter(remove_internal_edge_points(p))

---------------------------------------------------------------------------
\* BlocksMap.

Boxes(w, h) == (0..(w - 1)) \X (0..(h - 1))

\* get_grid_vertices with by outer and bx inner.
get_grid_vertices_RowMajor(size) ==
    [k \in 1..(size[1] * size[2]) |-> <<(k - 1) % size[1], (k - 1) \div size[1]>>]

\* get_grid_vertices: bx outer, by inner, box_size = 1.
get_grid_vertices(size) ==
    [k \in 1..(size[1] * size[2]) |-> <<(k - 1) \div size[2], (k - 1) % size[2]>>]

\* vertex2boxes with the boxes of the upper right and the lower left swapped.
vertex2boxes_Swapped(xy) ==
    <<<<xy[1] - 1, xy[2] - 1>>, <<xy[1] - 1, xy[2]>>,
      <<xy[1], xy[2] - 1>>, <<xy[1], xy[2]>>>>

\* vertex2boxes: <<upleft, upright, downleft, downright>>
vertex2boxes(xy) ==
    <<<<xy[1] - 1, xy[2] - 1>>, <<xy[1], xy[2] - 1>>,
      <<xy[1] - 1, xy[2]>>, <<xy[1], xy[2]>>>>

\* self.map.get(box, 0)
MapGet(blocks, box) == IF box \in blocks THEN 1 ELSE 0

boxes2block_matrix(blocks, boxes) ==
    <<<<MapGet(blocks, boxes[1]), MapGet(blocks, boxes[2])>>,
      <<MapGet(blocks, boxes[3]), MapGet(blocks, boxes[4])>>>>

BlockMatrixAt(blocks, xy) == boxes2block_matrix(blocks, vertex2boxes(xy))

\* tracked_vertices[v] of a Counter
Count(tracked, v) == IF v \in DOMAIN tracked THEN tracked[v] ELSE 0

\* The counter left as it was.
CountAdd_Forgets(tracked, v, n) == tracked

\* tracked_vertices[v] += n
CountAdd(tracked, v, n) ==
    [u \in (DOMAIN tracked) \cup {v} |->
        IF u = v THEN Count(tracked, v) + n ELSE tracked[u]]

\* Every pass adding 2 to the counter, at a saddle vertex too.
PassWeight_Two(versors) == 2

\* The amount one pass adds to the counter of a vertex with these versors.
PassWeight(versors) == IF Len(versors) = 4 THEN 1 ELSE 2

\* The candidate test without the `elif n_passes > 0: continue`.
SkipsCandidate_Untracked(blocks, tracked, vertex) ==
    LET n_versors == Len(POSSIBLE_DIRECTIONS[BlockMatrixAt(blocks, vertex)])
        n_passes == Count(tracked, vertex)
    IN  \/ n_versors = 0
        \/ n_versors = 4 /\ n_passes > 1

\* The candidate test with a saddle vertex treated like any other vertex.
SkipsCandidate_SaddleOnce(blocks, tracked, vertex) ==
    LET n_versors == Len(POSSIBLE_DIRECTIONS[BlockMatrixAt(blocks, vertex)])
        n_passes == Count(tracked, vertex)
    IN  \/ n_versors = 0
        \/ n_passes > 0

\* The three `continue`s of the candidate loop (png2obj.py 395-409).
SkipsCandidate(blocks, tracked, vertex) ==
    LET n_versors == Len(POSSIBLE_DIRECTIONS[BlockMatrixAt(blocks, vertex)])
        n_passes == Count(tracked, vertex)
    IN  \/ n_versors = 0
        \/ n_versors = 4 /\ n_passes > 1
        \/ n_versors # 4 /\ n_passes > 0

\* ret.sort()
SortedPerimeters(perimeters) == SortSeq(perimeters, ListLess)

\* A walk longer than this revisits a directed lattice edge and never closes.
MaxWalk == 4 * (MaxW + 2) * (MaxH + 2)

---------------------------------------------------------------------------
\* BlocksMap.build as a state machine.

NormIdle ==
    /\ loop = <<>>
    /\ other = <<>>
    /\ out1 = <<>>
    /\ out2 = <<>>
    /\ npc = "idle"

\* create_wavefront called with the defaults: no vertices, no faces, no
\* result of a triangulation.
NoWavefront ==
    [vertices |-> <<>>, faces |-> <<>>, zero_index |-> FALSE,
     triangulate_result |-> [given |-> FALSE, vertices |-> <<>>, triangles |-> <<>>],
     dst |-> FALSE]

\* create_wavefront not called yet.
NotCreated == [raised |-> "none", examined |-> 0]

ExportIdle ==
    /\ mesh = <<>>
    /\ mesh_b = <<>>
    /\ cw = NoWavefront
    /\ text = <<>>
    /\ text_b = <<>>
    /\ epc = "idle"
    /\ cw_status = NotCreated
    /\ cw_file = "absent"

PipeIdle ==
    /\ matrix = <<>>
    /\ holes = <<>>
    /\ triangles = <<>>
    /\ tri_called = FALSE
    /\ segments = <<>>
    /\ tri_assert = "none"
    /\ dst_file = "absent"
    /\ ppc = "idle"

LookupIdle ==
    /\ arg_xy = <<0, 0>>
    /\ vboxes = <<>>
    /\ block_matrix = <<>>
    /\ map_before = {}
    /\ lpc = "idle"

BlevelerIdle ==
    /\ bl_walls = <<>>
    /\ bl_verts = <<>>
    /\ bl_edges = <<>>
    /\ bl_ret = <<>>
    /\ bpc = "idle"

\* The list objects of a call: none has any element.
NoObjects == [o \in {"arg", "holes", "deq", "ret", "unique_vertices", "segments"} |-> <<>>]

FrameIdle ==
    /\ heap = NoObjects
    /\ heap_before = NoObjects
    /\ result = "None"
    /\ fpc = "idle"

\* build is not running.
WalkIdle ==
    /\ order = <<>>
    /\ iv = 1
    /\ tracked_vertices = <<>>
    /\ first_vertex = <<0, 0>>
    /\ wall_vertex = <<0, 0>>
    /\ versor = STILL
    /\ wall_perimeter = <<>>
    /\ pc = "idle"
    /\ steps = <<>>

\* The state before build is called on a BlocksMap made by mat2map, with the
\* start candidates to be taken in the order cands.
BuildInit(cands) ==
    /\ order = cands
    /\ iv = 1
    /\ tracked_vertices = <<>>
    /\ first_vertex = <<0, 0>>
    /\ wall_vertex = <<0, 0>>
    /\ versor = STILL
    /\ wall_perimeter = <<>>
    /\ ret = <<>>
    /\ pc = "begin"
    /\ steps = <<>>

Init ==
    /\ map_size \in {s \in (1..MaxW) \X (1..MaxH) : s[1] * s[2] <= MaxCells}
    /\ map \in SUBSET Boxes(map_size[1], map_size[2])
    /\ BuildInit(get_grid_vertices(map_size))
    /\ NormIdle
    /\ ExportIdle
    /\ PipeIdle
    /\ LookupIdle
    /\ BlevelerIdle
    /\ FrameIdle

\* `if not self.map: return []`, else the Counter is created and the
\* candidate loop entered.
Begin ==
    /\ pc = "begin"
    /\ pc' = IF map = {} THEN "done" ELSE "scan"
    /\ UNCHANGED <<map, map_size, order, iv, tracked_vertices, first_vertex,
                   wall_vertex, versor, wall_perimeter, ret, steps>>
    /\ UNCHANGED notBuild

\* A candidate that is no border vertex or was tracked already: `continue`.
SkipVertex ==
    /\ pc = "scan"
    /\ iv <= Len(order)
    /\ SkipsCandidate(map, tracked_vertices, order[iv])
    /\ iv' = iv + 1
    /\ UNCHANGED <<map, map_size, order, tracked_vertices, first_vertex,
                   wall_vertex, versor, wall_perimeter, ret, pc, steps>>
    /\ UNCHANGED notBuild

\* A new wall perimeter is started from the candidate.
StartWalk ==
    /\ pc = "scan"
    /\ iv <= Len(order)
    /\ ~SkipsCandidate(map, tracked_vertices, order[iv])
    /\ wall_perimeter' = <<order[iv]>>
    /\ first_vertex' = order[iv]
    /\ versor' = STILL
    /\ wall_vertex' = order[iv]
    /\ pc' = "walk"
    /\ UNCHANGED <<map, map_size, order, iv, tracked_vertices, ret, steps>>
    /\ UNCHANGED notBuild

\* One iteration of `while True`: count the pass, look the next versor up,
\* step.  A failed lookup in RULES is Python's KeyError.
WalkStep ==
    /\ pc = "walk"
    /\ Len(wall_perimeter) <= MaxWalk
    /\ LET blocks_matrix == BlockMatrixAt(map, wall_vertex)
           versors == POSSIBLE_DIRECTIONS[blocks_matrix]
       IN  /\ tracked_vertices' = CountAdd(tracked_vertices, wall_vertex, PassWeight(versors))
           /\ IF versor \in DOMAIN RULES[blocks_matrix]
              THEN LET versor_next == RULES[blocks_matrix][versor]
                       v_next == sum_vectors(wall_vertex, versor_next)
                   IN  /\ wall_perimeter' = Append(wall_perimeter, v_next)
                       /\ versor' = versor_next
                       /\ wall_vertex' = v_next
                       /\ steps' = Append(steps, [walk |-> Len(ret) + 1, first |-> first_vertex,
                                                  at |-> wall_vertex, vin |-> versor,
                                                  vout |-> versor_next])
                       /\ pc' = IF v_next = first_vertex THEN "close" ELSE "walk"
              ELSE /\ pc' = "error"
                   /\ UNCHANGED <<wall_perimeter, versor, wall_vertex, steps>>
    /\ UNCHANGED <<map, map_size, order, iv, first_vertex, ret>>
    /\ UNCHANGED notBuild

\* After `break`: wall_perimeter = remove_internal_edge_points(wall_perimeter),
\* wall_perimeter = normalized_perimeter(wall_perimeter), ret.append(wall_perimeter).
CloseWalk ==
    /\ pc = "close"
    /\ \E corners \in {remove_internal_edge_points(wall_perimeter)} :
         \E normalized \in {normalized_perimeter(corners)} :
            ret' = Append(ret, normalized)
    /\ iv' = iv + 1
    /\ pc' = "scan"
    /\ UNCHANGED <<map, map_size, order, tracked_vertices, first_vertex,
                   wall_vertex, versor, wall_perimeter, steps>>
    /\ UNCHANGED notBuild

\* The candidates are exhausted: ret.sort(); return ret.
Finish ==
    /\ pc = "scan"
    /\ iv > Len(order)
    /\ ret' = SortedPerimeters(ret)
    /\ pc' = "done"
    /\ UNCHANGED <<map, map_size, order, iv, tracked_vertices, first_vertex,
                   wall_vertex, versor, wall_perimeter, steps>>
    /\ UNCHANGED notBuild

Next ==
    \/ Begin
    \/ SkipVertex
    \/ StartWalk
    \/ WalkStep
    \/ CloseWalk
    \/ Finish

Spec == Init /\ [][Next]_vars

\* build runs to its end without waiting for anything: a step that can be
\* taken is taken.
\* Before the BlocksMap is made.
InitTerm ==
    /\ map = {}
    /\ map_size = <<1, 1>>
    /\ WalkIdle
    /\ ret = <<>>
    /\ NormIdle
    /\ ExportIdle
    /\ PipeIdle
    /\ LookupIdle
    /\ BlevelerIdle
    /\ FrameIdle

\* BlocksMap(data, map_size), and build is called on it.
NewBlocksMap ==
    /\ pc = "idle"
    /\ map_size' \in {s \in (1..MaxW) \X (1..MaxH) : s[1] * s[2] <= MaxCells}
    /\ map' \in SUBSET Boxes(map_size'[1], map_size'[2])
    /\ order' = get_grid_vertices(map_size')
    /\ pc' = "begin"
    /\ UNCHANGED <<iv, tracked_vertices, first_vertex, wall_vertex, versor,
                   wall_perimeter, ret, steps>>
    /\ UNCHANGED notBuild

NextTerm ==
    \/ NewBlocksMap
    \/ Next

SpecTerm == InitTerm /\ [][NextTerm]_vars /\ WF_vars(NextTerm)

---------------------------------------------------------------------------
\* build with the start candidates taken in an arbitrary order: the for loop
\* of build over a permutation of get_grid_vertices().

\* The lists that hold every element of the list cands exactly once.
OrdersOf(cands) ==
    {[k \in 1..Len(cands) |-> cands[p[k]]] : p \in Permutations(1..Len(cands))}

InitOrder ==
    /\ map_size \in {s \in (1..MaxW) \X (1..MaxH) : s[1] * s[2] <= MaxCands}
    /\ map \in SUBSET Boxes(map_size[1], map_size[2])
    /\ \E cands \in OrdersOf(get_grid_vertices(map_size)) : BuildInit(cands)
    /\ NormIdle
    /\ ExportIdle
    /\ PipeIdle
    /\ LookupIdle
    /\ BlevelerIdle
    /\ FrameIdle

SpecOrder == InitOrder /\ [][Next]_vars

RECURSIVE WalkFrom(_, _, _, _, _, _)
\* The `while True` loop of build run to its `break`: the walk's vertices
\* and the Counter after it.
WalkFrom(blocks, first, vertex, vers, perimeter, tracked) ==
    LET blocks_matrix == BlockMatrixAt(blocks, vertex)
        counted == CountAdd(tracked, vertex,
                            PassWeight(POSSIBLE_DIRECTIONS[blocks_matrix]))
        versor_next == RULES[blocks_matrix][vers]
        v_next == sum_vectors(vertex, versor_next)
    IN  IF v_next = first \/ Len(perimeter) > MaxWalk
        THEN [perimeter |-> Append(perimeter, v_next), tracked |-> counted]
        ELSE WalkFrom(blocks, first, v_next, versor_next,
                      Append(perimeter, v_next), counted)

RECURSIVE ScanFrom(_, _, _, _, _)
\* The for loop of build from candidate number k on.
ScanFrom(blocks, cands, k, tracked, perimeters) ==
    IF k > Len(cands) THEN perimeters
    ELSE IF SkipsCandidate(blocks, tracked, cands[k])
         THEN ScanFrom(blocks, cands, k + 1, tracked, perimeters)
         ELSE LET w == WalkFrom(blocks, cands[k], cands[k], STILL, <<cands[k]>>, tracked)
              IN  ScanFrom(blocks, cands, k + 1, w.tracked,
                           Append(perimeters, Normalize(w.perimeter)))

\* What build returns with the candidates taken in the order cands.
BuildResult(blocks, cands) ==
    IF blocks = {} THEN <<>>
    ELSE SortedPerimeters(ScanFrom(blocks, cands, 1, <<>>, <<>>))

---------------------------------------------------------------------------
\* The normaliser applied to closed loops of lattice points.

Points == (0..MaxPX) \X (0..MaxPY)

\* b is one unit step away from a.
UnitStep(a, b) ==
    \/ a[1] = b[1] /\ (a[2] - b[2] = 1 \/ b[2] - a[2] = 1)
    \/ a[2] = b[2] /\ (a[1] - b[1] = 1 \/ b[1] - a[1] = 1)

\* The ways to go on from the last point of the path s by a unit step that
\* does not turn back to the point before it.
Onward(s) ==
    {b \in Points : /\ UnitStep(s[Len(s)], b)
                    /\ (Len(s) > 1 => b # s[Len(s) - 1])}

\* The number of unit steps from a to b.
Dist(a, b) ==
    (IF a[1] < b[1] THEN b[1] - a[1] ELSE a[1] - b[1])
        + (IF a[2] < b[2] THEN b[2] - a[2] ELSE a[2] - b[2])

RECURSIVE Paths(_, _)
\* The walks of n points that never turn back and can still be back one
\* step from their first point when they have m points.
Paths(n, m) ==
    IF n = 1 THEN {<<a>> : a \in Points}
    ELSE UNION {{Append(s, a) : a \in {b \in Onward(s) : Dist(b, s[1]) <= m - n + 1}}
                    : s \in Paths(n - 1, m)}

\* The walk closes into a loop without turning back at its first point.
Closes(s) ==
    /\ s[1] \in Onward(s)
    /\ s[2] # s[Len(s)]

\* The closed loops of lattice points: closed walks of 4 to MaxCycle unit
\* steps that never turn back, the last element repeating the first.
ClosedLoops ==
    UNION {{Append(s, s[1]) : s \in {c \in Paths(n, n) : Closes(c)}} :
            n \in 4..MaxCycle}

\* The loop listing the cycle of p from its k-th point on.
Restarted(p, k) ==
    SubSeq(p, k, Len(p) - 1) \o SubSeq(p, 1, k - 1) \o <<p[k]>>

BuildIdle ==
    /\ map = {}
    /\ map_size = <<1, 1>>
    /\ order = <<>>
    /\ iv = 1
    /\ tracked_vertices = <<>>
    /\ first_vertex = <<0, 0>>
    /\ wall_vertex = <<0, 0>>
    /\ versor = STILL
    /\ wall_perimeter = <<>>
    /\ ret = <<>>
    /\ pc = "idle"
    /\ steps = <<>>

InitNorm ==
    /\ loop \in ClosedLoops
    /\ other = <<>>
    /\ out1 = <<>>
    /\ out2 = <<>>
    /\ npc = "input"
    /\ BuildIdle
    /\ ExportIdle
    /\ PipeIdle
    /\ LookupIdle
    /\ BlevelerIdle
    /\ FrameIdle

\* The loop is normalised as build normalises a finished walk.
NormalizeOnce ==
    /\ npc = "input"
    /\ out1' = Normalize(loop)
    /\ npc' = "once"
    /\ UNCHANGED <<loop, other, out2>>
    /\ UNCHANGED notNorm

\* The normalised loop is normalised again.
NormalizeTwice ==
    /\ npc = "once"
    /\ out2' = Normalize(out1)
    /\ npc' = "twice"
    /\ UNCHANGED <<loop, other, out1>>
    /\ UNCHANGED notNorm

\* normalized_perimeter is applied to the loop and to the same cycle listed
\* from another starting point.
NormalizeRestarted ==
    /\ npc = "input"
    /\ \E k \in 2..(Len(loop) - 1) :
            /\ other' = Restarted(loop, k)
            /\ out1' = normalized_perimeter(loop)
            /\ out2' = normalized_perimeter(Restarted(loop, k))
    /\ npc' = "restarted"
    /\ UNCHANGED loop
    /\ UNCHANGED notNorm

\* remove_internal_edge_points is applied to the loop.
RemoveInternal ==
    /\ npc = "input"
    /\ out1' = remove_internal_edge_points(loop)
    /\ npc' = "corners"
    /\ UNCHANGED <<loop, other, out2>>
    /\ UNCHANGED notNorm

NextNorm ==
    \/ RemoveInternal
    \/ NormalizeOnce
    \/ NormalizeTwice
    \/ NormalizeRestarted

SpecNorm == InitNorm /\ [][NextNorm]_vars

---------------------------------------------------------------------------
\* The Wavefront exporter (wavefront.py).

\* Largest number of faces of an exported mesh, of vertices and of faces
\* handed to create_wavefront.
MaxFaces == 2

\* ('+x', '+z', '+y'), each entry as its sign and its axis.
DEFAULT_EXPORT_SETTINGS == <<<<"+", "x">>, <<"+", "z">>, <<"+", "y">>>>

\* sign_dic[s[0]]
SignOf(s) == IF s = "-" THEN -1 ELSE 1

\* AXES.index(s[1]), AXES = 'xyz'
AxisIndex(a) == CASE a = "x" -> 0 [] a = "y" -> 1 [] a = "z" -> 2

\* parse_readable_export_settings: ((axis, sign), (axis, sign), (axis, sign))
parse_readable_export_settings(export_settings) ==
    [k \in 1..3 |-> <<AxisIndex(export_settings[k][2]), SignOf(export_settings[k][1])>>]

\* '{:.6f}'.format(component): the component written with six decimals, held
\* as its number of millionths.
Format6(component) == component * 1000000

\* export_vertex: 'v right forward up'
export_vertex(vertex, export_settings) ==
    LET right == vertex[export_settings[1][1] + 1] * export_settings[1][2]
        forward == vertex[export_settings[2][1] + 1] * export_settings[2][2]
        up == vertex[export_settings[3][1] + 1] * export_settings[3][2]
    IN  [kind |-> "v", nums |-> <<Format6(right), Format6(forward), Format6(up)>>]

\* export_face_indices: 'f i1 i2 ...', each index plus zero_index (a bool).
export_face_indices(face_indices, zero_index) ==
    [kind |-> "f",
     nums |-> [k \in 1..Len(face_indices)
                    |-> face_indices[k] + (IF zero_index THEN 1 ELSE 0)]]

\* (x1, y1, z1) < (x2, y2, z2), as Python compares tuples.
Less3(a, b) ==
    \/ a[1] < b[1]
    \/ a[1] = b[1] /\ a[2] < b[2]
    \/ a[1] = b[1] /\ a[2] = b[2] /\ a[3] < b[3]

RECURSIVE Sorted3(_)
\* sorted(S) for a set S of vertices
Sorted3(S) ==
    IF S = {} THEN <<>>
    ELSE LET m == CHOOSE v \in S : \A u \in S : ~Less3(u, v)
         IN  <<m>> \o Sorted3(S \ {m})

\* The set `unique` of mesh2vertices.
UniqueVertices(faces) == UNION {Range(faces[i]) : i \in 1..Len(faces)}

RECURSIVE FirstSeen(_, _)
\* The vertices of a list in the order of their first occurrence.
FirstSeen(vs, seen) ==
    IF vs = <<>> THEN <<>>
    ELSE IF Head(vs) \in seen THEN FirstSeen(Tail(vs), seen)
         ELSE <<Head(vs)>> \o FirstSeen(Tail(vs), seen \cup {Head(vs)})

RECURSIVE Flatten(_)
\* The elements of the lists of a list, in order.
Flatten(lists) ==
    IF lists = <<>> THEN <<>> ELSE Head(lists) \o Flatten(Tail(lists))

\* vertex -> index of the list vs, the first index being `start`.
IndexMap(vs, start) ==
    [v \in Range(vs) |-> (CHOOSE i \in 1..Len(vs) : vs[i] = v) - 1 + start]

\* mesh2vertices numbering the vertices in the order the faces list them.
mesh2vertices_InsertionOrder(faces) == IndexMap(FirstSeen(Flatten(faces), {}), 1)

\* mesh2vertices numbering the sorted vertices from 0.
mesh2vertices_FromZero(faces) == IndexMap(Sorted3(UniqueVertices(faces)), 0)

\* mesh2vertices: enumerate(sorted(list(unique)), 1)
mesh2vertices(faces) == IndexMap(Sorted3(UniqueVertices(faces)), 1)

\* The vertex lines of export_mesh (wavefront.py 93-95).
VertexLines(faces, export_settings) ==
    LET vs == Sorted3(DOMAIN mesh2vertices(faces))
    IN  [k \in 1..Len(vs) |-> export_vertex(vs[k], export_settings)]

\* The face lines of export_mesh (wavefront.py 97-99).
FaceLines(faces) ==
    LET vertices_indices == mesh2vertices(faces)
    IN  [j \in 1..Len(faces) |->
            export_face_indices([k \in 1..Len(faces[j]) |-> vertices_indices[faces[j][k]]],
                                FALSE)]

\* export_mesh appending the face lines before the vertex lines.
export_mesh_FacesFirst(faces, readable_export_settings) ==
    FaceLines(faces)
        \o VertexLines(faces, parse_readable_export_settings(readable_export_settings))

\* export_mesh: the list of lines that '\n'.join(ret) joins.
export_mesh(faces, readable_export_settings) ==
    VertexLines(faces, parse_readable_export_settings(readable_export_settings))
        \o FaceLines(faces)


\* `raise Exception('Invalid length vertex')`: a vertex of the result of the
\* triangulation has neither 2 nor 3 components.
InvalidLengthVertex(args) ==
    /\ args.triangulate_result.given
    /\ \E i \in 1..Len(args.triangulate_result.vertices) :
            Len(args.triangulate_result.vertices[i]) \notin {2, 3}

\* The vertices create_wavefront exports: those of triangulate_result, a
\* 2D vertex getting z = 0.0, when a result is given, else the argument.
WavefrontVertices(args) ==
    IF args.triangulate_result.given
    THEN LET vs == args.triangulate_result.vertices
         IN  [i \in 1..Len(vs) |->
                 IF Len(vs[i]) = 2 THEN <<vs[i][1], vs[i][2], 0>> ELSE vs[i]]
    ELSE args.vertices

\* create_wavefront with dst = None: the exception raised ("none" when it
\* returns) and the lines joined into the returned text.
\* create_wavefront with the assertion inside the face loop: it stops at the
\* first face holding index 0.
create_wavefront_AssertInLoop(args, readable_export_settings) ==
    LET given == args.triangulate_result.given
        faces == IF given THEN args.triangulate_result.triangles ELSE args.faces
        vertices == WavefrontVertices(args)
        zero_index == IF given THEN TRUE ELSE args.zero_index
        export_settings == parse_readable_export_settings(readable_export_settings)
        errors == {i \in 1..Len(faces) : 0 \in Range(faces[i]) /\ ~zero_index}
    IN  IF InvalidLengthVertex(args)
        THEN [raised |-> "Exception", lines |-> <<>>, examined |-> 0, written |-> FALSE]
        ELSE IF \E i \in 1..Len(vertices) : Len(vertices[i]) < 3
        THEN [raised |-> "IndexError", lines |-> <<>>, examined |-> 0, written |-> FALSE]
        ELSE IF errors # {}
        THEN [raised |-> "AssertionError", lines |-> <<>>,
              examined |-> CHOOSE i \in errors : \A j \in errors : i <= j,
              written |-> FALSE]
        ELSE [raised |-> "none",
              lines |-> [i \in 1..Len(vertices) |-> export_vertex(vertices[i], export_settings)]
                        \o [i \in 1..Len(faces) |-> export_face_indices(faces[i], zero_index)],
              examined |-> Len(faces), written |-> args.dst]

\* raised: the exception that ends the call ("none": it returns); lines: the
\* lines joined by '\n'; examined: the faces the face loop has gone through;
\* written: whether open(dst, 'w') and fp.write were reached.
create_wavefront(args, readable_export_settings) ==
    LET given == args.triangulate_result.given
        faces == IF given THEN args.triangulate_result.triangles ELSE args.faces
        vertices == WavefrontVertices(args)
        zero_index == IF given THEN TRUE ELSE args.zero_index
        export_settings == parse_readable_export_settings(readable_export_settings)
        errors == {i \in 1..Len(faces) : 0 \in Range(faces[i]) /\ ~zero_index}
    IN  IF InvalidLengthVertex(args)
        THEN [raised |-> "Exception", lines |-> <<>>, examined |-> 0, written |-> FALSE]
        ELSE IF \E i \in 1..Len(vertices) : Len(vertices[i]) < 3
        THEN [raised |-> "IndexError", lines |-> <<>>, examined |-> 0, written |-> FALSE]
        ELSE IF errors # {}
        THEN [raised |-> "AssertionError", lines |-> <<>>, examined |-> Len(faces),
              written |-> FALSE]
        ELSE [raised |-> "none",
              lines |-> [i \in 1..Len(vertices) |-> export_vertex(vertices[i], export_settings)]
                        \o [i \in 1..Len(faces) |-> export_face_indices(faces[i], zero_index)],
              examined |-> Len(faces), written |-> args.dst]

\* The lists of at most n elements of S.
ListsOf(S, n) == UNION {[1..k -> S] : k \in 0..n}

\* The vertices of the exported meshes.
ExportPoints == {<<0, 0, 1>>, <<0, 1, 0>>, <<1, 0, 0>>, <<1, 1, 1>>}

\* Triangles and quads with distinct corners.
ExportFaces ==
    {f \in [1..3 -> ExportPoints] \cup [1..4 -> ExportPoints] :
        \A i \in 1..Len(f), j \in 1..Len(f) : i # j => f[i] # f[j]}

Meshes == ListsOf(ExportFaces, MaxFaces)

\* The arguments create_wavefront is called with: vertices and faces, or the
\* result of a triangulation (2D and 3D vertices, and one of a wrong length).
WavefrontInputs ==
    {[vertices |-> vs, faces |-> fs, zero_index |-> z,
      triangulate_result |-> NoWavefront.triangulate_result, dst |-> d] :
        vs \in ListsOf({<<0, 0, 0>>, <<1, 0, 2>>}, MaxFaces),
        fs \in ListsOf({<<0, 1, 2>>, <<1, 2, 3>>}, MaxFaces),
        z \in BOOLEAN, d \in BOOLEAN}
    \cup
    {[vertices |-> <<>>, faces |-> <<>>, zero_index |-> FALSE,
      triangulate_result |-> [given |-> TRUE, vertices |-> vs, triangles |-> fs],
      dst |-> d] :
        vs \in ListsOf({<<0, 1>>, <<1, 0, 2>>, <<0, 1, 2, 3>>}, MaxFaces),
        fs \in ListsOf({<<0, 1, 2>>, <<1, 2, 3>>}, MaxFaces),
        d \in BOOLEAN}

\* The list of the elements of faces taken in the order p.
Reordered(faces, p) == [k \in 1..Len(faces) |-> faces[p[k]]]

InitExport ==
    /\ \/ /\ epc = "export_mesh"
          /\ mesh \in Meshes
          /\ cw = NoWavefront
       \/ /\ epc = "create_wavefront"
          /\ mesh = <<>>
          /\ cw \in WavefrontInputs
    /\ mesh_b = <<>>
    /\ text = <<>>
    /\ text_b = <<>>
    /\ cw_status = NotCreated
    /\ cw_file \in {"absent", "previous"}
    /\ BuildIdle
    /\ NormIdle
    /\ PipeIdle
    /\ LookupIdle
    /\ BlevelerIdle
    /\ FrameIdle

\* export_mesh(mesh)
ExportMesh ==
    /\ epc = "export_mesh"
    /\ text' = export_mesh(mesh, DEFAULT_EXPORT_SETTINGS)
    /\ epc' = "exported"
    /\ UNCHANGED <<mesh, mesh_b, cw, text_b, cw_status, cw_file>>
    /\ UNCHANGED notExport

\* export_mesh of a mesh holding the same faces in another insertion order.
ExportReordered ==
    /\ epc = "exported"
    /\ \E p \in Permutations(1..Len(mesh)) :
            /\ mesh_b' = Reordered(mesh, p)
            /\ text_b' = export_mesh(Reordered(mesh, p), DEFAULT_EXPORT_SETTINGS)
    /\ epc' = "reordered"
    /\ UNCHANGED <<mesh, cw, text, cw_status, cw_file>>
    /\ UNCHANGED notExport

\* create_wavefront(vertices, faces, zero_index, triangulate_result)
CreateWavefront ==
    /\ epc = "create_wavefront"
    /\ LET r == create_wavefront(cw, DEFAULT_EXPORT_SETTINGS)
       IN  /\ text' = r.lines
           /\ epc' = IF r.raised = "none" THEN "created" ELSE "raised"
           /\ cw_status' = [raised |-> r.raised, examined |-> r.examined]
           /\ cw_file' = IF r.written THEN "written" ELSE cw_file
    /\ UNCHANGED <<mesh, mesh_b, cw, text_b>>
    /\ UNCHANGED notExport

NextExport ==
    \/ ExportMesh
    \/ ExportReordered
    \/ CreateWavefront

SpecExport == InitExport /\ [][NextExport]_vars

---------------------------------------------------------------------------
\* The pipeline: matrix2obj (png2obj.py 488-519) and the functions it calls.

\* Largest number of rows, and of cells of a row, of the matrices whose rows
\* may differ in length.
MaxRagged == 2
MaxCols == 3
MaxRows == 2

\* matrix2obj(matrix, dst, height=1)
Height == 1

\* The rows of the matrix are not all of the same length.
Ragged(m) == \E i \in 1..Len(m), j \in 1..Len(m) : Len(m[i]) # Len(m[j])

\* mat2map: the blocks are the cells that are not walkable; map_size is
\* (x + 1, y + 1) with x and y as the two for loops left them: y the index of
\* the last row, x the index of the last cell of the last row that has cells.
\* Without rows, or without any cell, x is unbound and mat2map raises.
mat2map(m) ==
    LET filled == {i \in 1..Len(m) : Len(m[i]) > 0}
        last == CHOOSE i \in filled : \A k \in filled : k <= i
    IN  IF filled = {}
        THEN [raised |-> TRUE, map |-> {}, map_size |-> <<0, 0>>]
        ELSE [raised |-> FALSE,
              map |-> UNION {{<<x - 1, y - 1>> : x \in {k \in 1..Len(m[y]) : m[y][k] = 0}}
                                : y \in 1..Len(m)},
              map_size |-> <<Len(m[last]), Len(m)>>]

RECURSIVE RowHoles(_, _, _)
\* The inner loop of matrix2holes over the cells of row y from cell x on.
RowHoles(row, x, y) ==
    IF x > Len(row) - 1 THEN <<>>
    ELSE (IF row[x + 1] # 0 THEN <<<<2 * x + 1, 2 * y + 1>>>> ELSE <<>>)
            \o RowHoles(row, x + 1, y)

\* matrix2holes with x and y swapped in the seed.
matrix2holes_Transposed(m) ==
    LET hs == Flatten([i \in 1..Len(m) |-> RowHoles(m[i], 0, i - 1)])
    IN  [i \in 1..Len(hs) |-> <<hs[i][2], hs[i][1]>>]

\* matrix2holes seeding the blocks instead of the walkable cells.
matrix2holes_Blocks(m) ==
    Flatten([i \in 1..Len(m) |->
                RowHoles([k \in 1..Len(m[i]) |-> 1 - m[i][k]], 0, i - 1)])

\* matrix2holes: (x + 0.5, y + 0.5) for every walkable cell, row by row.
matrix2holes(m) == Flatten([i \in 1..Len(m) |-> RowHoles(m[i], 0, i - 1)])

\* wall_perimeters_to_unique_vertices keeping every occurrence.
wall_perimeters_to_unique_vertices_All(wall_perimeters) ==
    Flatten(wall_perimeters)

\* wall_perimeters_to_unique_vertices
wall_perimeters_to_unique_vertices(wall_perimeters) ==
    FirstSeen(Flatten(wall_perimeters), {})

\* list_to_index_map: element -> 0-based index
list_to_index_map(the_list) == IndexMap(the_list, 0)

\* The segments of triangulate_walls: for every wall, a couple of vertex
\* indices per couple of consecutive vertices.
Segments(wall_perimeters) ==
    LET vertices_indices == list_to_index_map(wall_perimeters_to_unique_vertices(wall_perimeters))
    IN  Flatten([w \in 1..Len(wall_perimeters) |->
            [i \in 1..(Len(wall_perimeters[w]) - 1) |->
                <<vertices_indices[wall_perimeters[w][i]],
                  vertices_indices[wall_perimeters[w][i + 1]]>>]])

\* dict(vertices=unique_vertices, segments=segments), with the holes when
\* there are holes.
TriangulateInput(wall_perimeters, holes_) ==
    [vertices |-> wall_perimeters_to_unique_vertices(wall_perimeters),
     segments |-> Segments(wall_perimeters),
     holes |-> holes_]

\* triangulate_walls going on to the triangulation whatever the graph.
ShortCircuits_Never(dic) == FALSE

\* `if not dic['vertices']: return []`
ShortCircuits(dic) == dic.vertices = <<>>

\* triangle.triangulate(dic, 'pc'), an external library: it raises, or it
\* returns triangles over the vertices it was given (here none or one),
\* which triangulate_walls turns into triples of vertices.
TriangleOutcomes(dic) ==
    {[raised |-> TRUE, called |-> TRUE, triangles |-> <<>>],
     [raised |-> FALSE, called |-> TRUE, triangles |-> <<>>]}
    \cup (IF Len(dic.vertices) >= 3
          THEN {[raised |-> FALSE, called |-> TRUE,
                 triangles |-> <<<<dic.vertices[1], dic.vertices[2], dic.vertices[3]>>>>]}
          ELSE {})

\* The assertion of list_to_index_map: the list has no element twice.
NoDuplicates(the_list) == Cardinality(Range(the_list)) = Len(the_list)

\* `assert wall[0] == wall[-1]` of triangulate_walls, for every wall.
WallsClosed(wall_perimeters) ==
    \A w \in 1..Len(wall_perimeters) :
        wall_perimeters[w][1] = wall_perimeters[w][Len(wall_perimeters[w])]

\* The couples (wall[ie], wall[ie + 1]) of the walls, in order.
WallEdgeList(wall_perimeters) ==
    Flatten([w \in 1..Len(wall_perimeters) |->
        [ie \in 1..(Len(wall_perimeters[w]) - 1) |->
            <<wall_perimeters[w][ie], wall_perimeters[w][ie + 1]>>]])

\* The "check that match walls" loop of triangulate_walls: the i-th
\* segment, taken back to vertices through unique_vertices, is the i-th
\* wall edge.
SegmentsMatchWalls(wall_perimeters) ==
    LET unique_vertices == wall_perimeters_to_unique_vertices(wall_perimeters)
        segments_ == Segments(wall_perimeters)
        wall_edges == WallEdgeList(wall_perimeters)
    IN  \A i \in 1..Len(wall_edges) :
            <<unique_vertices[segments_[i][1] + 1],
              unique_vertices[segments_[i][2] + 1]>> = wall_edges[i]

\* The first assertion of triangulate_walls that fails, in the order the
\* code reaches them.
FailedAssertion(wall_perimeters) ==
    IF ~NoDuplicates(wall_perimeters_to_unique_vertices(wall_perimeters))
    THEN "duplicate"
    ELSE IF ~WallsClosed(wall_perimeters) THEN "closure"
    ELSE IF ~SegmentsMatchWalls(wall_perimeters) THEN "edge"
    ELSE "none"

\* triangulate_walls: the outcomes it can have: whether it raised, the
\* assertion that failed, the segments it built, whether it called the
\* triangulation, and the triangles it returned.
triangulate_walls(wall_perimeters, holes_) ==
    LET dic == TriangulateInput(wall_perimeters, holes_)
        failed == FailedAssertion(wall_perimeters)
        Outcome(r) == [raised |-> r.raised, called |-> r.called,
                       triangles |-> r.triangles, failed |-> failed,
                       segments |-> IF failed = "none" THEN dic.segments ELSE <<>>]
    IN  IF failed # "none"
        THEN {Outcome([raised |-> TRUE, called |-> FALSE, triangles |-> <<>>])}
        ELSE IF ShortCircuits(dic)
        THEN {Outcome([raised |-> FALSE, called |-> FALSE, triangles |-> <<>>])}
        ELSE {Outcome(r) : r \in TriangleOutcomes(dic)}

\* extrude_wall_perimeters: for every couple of consecutive vertices (a, b)
\* of a perimeter the quad (a, 0), (b, 0), (b, h), (a, h).
extrude_wall_perimeters(wall_perimeters, h) ==
    Flatten([w \in 1..Len(wall_perimeters) |->
        [i \in 1..(Len(wall_perimeters[w]) - 1) |->
            LET a == wall_perimeters[w][i]
                b == wall_perimeters[w][i + 1]
            IN  <<<<a[1], a[2], 0>>, <<b[1], b[2], 0>>,
                  <<b[1], b[2], h>>, <<a[1], a[2], h>>>>]])

\* The horizontal faces of matrix2obj: every triangle at z = height.
HorizontalFaces(faces2D, h) ==
    [i \in 1..Len(faces2D) |->
        [k \in 1..3 |-> <<faces2D[i][k][1], faces2D[i][k][2], h>>]]

\* The matrices handed to matrix2obj: the rectangular ones up to MaxW x MaxH,
\* and the small ones whose rows may differ in length (or be missing).
\* The o_room fixtures of tests/test_edger.py.
o_room_1x1 ==
    <<<<1, 1, 1, 1, 1>>,
      <<1, 0, 0, 0, 1>>,
      <<1, 0, 1, 0, 1>>,
      <<1, 0, 0, 0, 1>>,
      <<1, 1, 1, 1, 1>>>>

o_room_1x1_bold ==
    <<<<0, 0, 0, 0, 0>>,
      <<0, 0, 0, 0, 0>>,
      <<0, 0, 1, 0, 0>>,
      <<0, 0, 0, 0, 0>>,
      <<0, 0, 0, 0, 0>>>>

o_room_2x2 ==
    <<<<0, 0, 0, 0>>,
      <<0, 1, 1, 0>>,
      <<0, 1, 1, 0>>,
      <<0, 0, 0, 0>>>>

\* A matrix whose blocks have two perimeters that meet at a vertex.
saddle_walls ==
    <<<<0, 0, 1>>,
      <<0, 1, 0>>,
      <<1, 0, 1>>>>

PipeMatrices ==
    UNION {[1..h -> [1..w -> Bit]] : w \in 1..MaxCols, h \in 1..MaxRows}
        \cup ListsOf(ListsOf(Bit, MaxRagged), MaxRagged)
        \cup {o_room_1x1, o_room_1x1_bold, o_room_2x2, saddle_walls}

\* The wall perimeters and the hole seeds of the direct calls of
\* triangulate_walls.
DirectWalls ==
    {<<>>,
     <<<<<<0, 0>>, <<1, 0>>, <<1, 1>>, <<0, 1>>, <<0, 0>>>>>>,
     <<<<<<0, 0>>, <<1, 0>>, <<1, 1>>, <<0, 1>>, <<0, 0>>>>,
       <<<<1, 1>>, <<2, 1>>, <<2, 2>>, <<1, 2>>, <<1, 1>>>>>>}

DirectHoles == {<<>>, <<<<1, 1>>>>, <<<<1, 1>>, <<3, 1>>>>}

InitPipe ==
    /\ \/ /\ ppc = "mat2map"
          /\ matrix \in PipeMatrices
          /\ dst_file = "previous"
          /\ ret = <<>>
          /\ holes = <<>>
       \/ /\ ppc = "triangulate_walls"
          /\ matrix = <<>>
          /\ dst_file = "absent"
          /\ ret \in DirectWalls
          /\ holes \in DirectHoles
    /\ map = {}
    /\ map_size = <<1, 1>>
    /\ triangles = <<>>
    /\ tri_called = FALSE
    /\ segments = <<>>
    /\ tri_assert = "none"
    /\ WalkIdle
    /\ NormIdle
    /\ ExportIdle
    /\ LookupIdle
    /\ BlevelerIdle
    /\ FrameIdle

\* blocks_map = mat2map(matrix)
Mat2Map ==
    /\ ppc = "mat2map"
    /\ LET r == mat2map(matrix)
       IN  /\ map' = r.map
           /\ map_size' = IF r.raised THEN map_size ELSE r.map_size
           /\ ppc' = IF r.raised THEN "failed_mat2map" ELSE "build"
    /\ UNCHANGED <<matrix, holes, triangles, tri_called, segments, tri_assert, dst_file, ret>>
    /\ UNCHANGED <<walkVars, normVars, exportVars>>
    /\ UNCHANGED notPipe

\* wall_perimeters = sorted(blocks_map.build(debug=turtle)): with debug set
\* build first sets up the turtle window, which raises where there is no
\* display.
TraceWalls ==
    /\ ppc = "build"
    /\ \/ /\ ret' = SortedPerimeters(BuildResult(map, get_grid_vertices(map_size)))
          /\ ppc' = "extrude"
       \/ /\ ret' = ret
          /\ ppc' = "failed_build"
    /\ UNCHANGED <<matrix, holes, triangles, tri_called, segments, tri_assert, dst_file, map, map_size>>
    /\ UNCHANGED <<walkVars, normVars, exportVars>>
    /\ UNCHANGED notPipe

\* mesh = extrude_wall_perimeters(wall_perimeters, height)
Extrude ==
    /\ ppc = "extrude"
    /\ mesh' = extrude_wall_perimeters(ret, Height)
    /\ ppc' = "triangulate"
    /\ UNCHANGED <<matrix, holes, triangles, tri_called, segments, tri_assert, dst_file>>
    /\ UNCHANGED <<mesh_b, cw, text, text_b, epc, cw_status, cw_file>>
    /\ UNCHANGED <<buildVars, normVars>>
    /\ UNCHANGED notPipe

\* holes = matrix2holes(matrix), triangulate_walls(wall_perimeters, holes)
\* and mesh.extend(horizontal_faces)
Triangulate ==
    /\ ppc = "triangulate"
    /\ holes' = matrix2holes(matrix)
    /\ \E r \in triangulate_walls(ret, matrix2holes(matrix)) :
            /\ triangles' = r.triangles
            /\ tri_called' = r.called
            /\ segments' = r.segments
            /\ tri_assert' = r.failed
            /\ mesh' = mesh \o HorizontalFaces(r.triangles, Height)
            /\ ppc' = IF r.raised THEN "failed_triangulate" ELSE "open"
    /\ UNCHANGED <<matrix, dst_file>>
    /\ UNCHANGED <<mesh_b, cw, text, text_b, epc, cw_status, cw_file>>
    /\ UNCHANGED <<buildVars, normVars>>
    /\ UNCHANGED notPipe

\* open(dst, 'w'): the file is created or truncated.
OpenDst ==
    /\ ppc = "open"
    /\ dst_file' = "empty"
    /\ ppc' = "write"
    /\ UNCHANGED <<matrix, holes, triangles, tri_called, segments, tri_assert>>
    /\ UNCHANGED <<buildVars, normVars, exportVars>>
    /\ UNCHANGED notPipe

\* fp.write(export_mesh(mesh)) inside the `with`: export_mesh raises and
\* nothing is written, or the write raises part-way, or the text is written.
WriteDst ==
    /\ ppc = "write"
    /\ \/ /\ text' = export_mesh(mesh, DEFAULT_EXPORT_SETTINGS)
          /\ dst_file' = "written"
          /\ ppc' = "done"
       \/ /\ UNCHANGED <<text, dst_file>>
          /\ ppc' = "failed_export"
       \/ /\ text' = export_mesh(mesh, DEFAULT_EXPORT_SETTINGS)
          /\ dst_file' = "partial"
          /\ ppc' = "failed_export"
    /\ UNCHANGED <<matrix, holes, triangles, tri_called, segments, tri_assert>>
    /\ UNCHANGED <<mesh, mesh_b, cw, text_b, epc, cw_status, cw_file>>
    /\ UNCHANGED <<buildVars, normVars>>
    /\ UNCHANGED notPipe

\* triangulate_walls(wall_perimeters, holes) called on its own.
TriangulateWalls ==
    /\ ppc = "triangulate_walls"
    /\ \E r \in triangulate_walls(ret, holes) :
            /\ triangles' = r.triangles
            /\ tri_called' = r.called
            /\ segments' = r.segments
            /\ tri_assert' = r.failed
            /\ ppc' = IF r.raised THEN "raised" ELSE "returned"
    /\ UNCHANGED <<matrix, holes, dst_file>>
    /\ UNCHANGED <<buildVars, normVars, exportVars>>
    /\ UNCHANGED notPipe

NextPipe ==
    \/ Mat2Map
    \/ TraceWalls
    \/ Extrude
    \/ Triangulate
    \/ OpenDst
    \/ WriteDst
    \/ TriangulateWalls

SpecPipe == InitPipe /\ [][NextPipe]_vars

---------------------------------------------------------------------------
\* The grid lookup of BlocksMap: vertex2boxes, then boxes2block_matrix, called
\* on a blocks map for a lattice vertex on, or one step off, the grid.

MaxLW == 2
MaxLH == 2

LookupVertices == ((0 - 1)..(MaxLW + 1)) \X ((0 - 1)..(MaxLH + 1))

InitLookup ==
    /\ map_size \in (1..MaxLW) \X (1..MaxLH)
    /\ map \in SUBSET Boxes(map_size[1], map_size[2])
    /\ ret = <<>>
    /\ WalkIdle
    /\ arg_xy \in LookupVertices
    /\ vboxes = <<>>
    /\ block_matrix = <<>>
    /\ map_before = map
    /\ lpc = "vertex2boxes"
    /\ NormIdle
    /\ ExportIdle
    /\ PipeIdle
    /\ BlevelerIdle
    /\ FrameIdle

\* boxes = self.vertex2boxes(xy)
Vertex2Boxes ==
    /\ lpc = "vertex2boxes"
    /\ vboxes' = vertex2boxes(arg_xy)
    /\ lpc' = "boxes2block_matrix"
    /\ UNCHANGED <<arg_xy, block_matrix, map_before>>
    /\ UNCHANGED <<buildVars, normVars, exportVars, pipeVars, blevelerVars, frameVars>>

\* self.boxes2block_matrix(boxes): four reads of self.map with dict.get,
\* which adds no key.
Boxes2BlockMatrix ==
    /\ lpc = "boxes2block_matrix"
    /\ block_matrix' = boxes2block_matrix(map, vboxes)
    /\ lpc' = "done"
    /\ UNCHANGED <<arg_xy, vboxes, map_before>>
    /\ UNCHANGED <<buildVars, normVars, exportVars, pipeVars, blevelerVars, frameVars>>

NextLookup ==
    \/ Vertex2Boxes
    \/ Boxes2BlockMatrix

SpecLookup == InitLookup /\ [][NextLookup]_vars

---------------------------------------------------------------------------
\* bleveler.py: wall_perimeters_to_verts_edges.

MaxWalls == 2

\* `if vertex not in verts: verts.append(vertex)` for the vertices of a wall.
RECURSIVE AddVertices(_, _)

AddVertices(wall, acc) ==
    IF wall = <<>> THEN acc
    ELSE AddVertices(Tail(wall),
                     IF Head(wall) \in Range(acc) THEN acc ELSE Append(acc, Head(wall)))

\* The first loop over the walls.
RECURSIVE VertsFrom(_, _)

VertsFrom(wall_perimeters, acc) ==
    IF wall_perimeters = <<>> THEN acc
    ELSE VertsFrom(Tail(wall_perimeters), AddVertices(Head(wall_perimeters), acc))

\* verts.index(vertex): the index, from 0, of the first occurrence.
VertsIndex(vs, v) ==
    (CHOOSE i \in 1..Len(vs) : vs[i] = v /\ \A j \in 1..(i - 1) : vs[j] # v) - 1

\* `for i in range(0, len(wall) - 1)`: the couple of wall[i] and wall[i + 1].
WallEdges(wall, vs) ==
    [i \in 1..(Len(wall) - 1) |-> <<VertsIndex(vs, wall[i]), VertsIndex(vs, wall[i + 1])>>]

\* The second loop over the walls.
RECURSIVE EdgesFrom(_, _)

EdgesFrom(wall_perimeters, vs) ==
    IF wall_perimeters = <<>> THEN <<>>
    ELSE WallEdges(Head(wall_perimeters), vs) \o EdgesFrom(Tail(wall_perimeters), vs)

wall_perimeters_to_verts_edges(wall_perimeters) ==
    LET vs == VertsFrom(wall_perimeters, <<>>)
    IN  [verts |-> vs, edges |-> EdgesFrom(wall_perimeters, vs)]

\* The two walls of the docstring of wall_perimeters_to_verts_edges.
DocWalls ==
    <<<<<<0, 0>>, <<3, 0>>, <<3, 1>>, <<0, 1>>>>,
      <<<<3, 1>>, <<4, 1>>, <<4, 2>>, <<3, 2>>>>>>

\* The corners of a rectangle, not closed.
Corners(x0, y0, x1, y1) == <<<<x0, y0>>, <<x1, y0>>, <<x1, y1>>, <<x0, y1>>>>

\* A wall closed as build closes it, by repeating its first vertex.
ClosedWall(wall) == Append(wall, wall[1])

\* Walls given as their distinct vertices, and the same walls closed.
OpenWalls ==
    {DocWalls[1], DocWalls[2], Corners(0, 0, 1, 1), Corners(1, 0, 2, 1),
     Corners(1, 1, 2, 2), <<<<0, 0>>, <<1, 0>>, <<1, 1>>>>}

BlevelerWalls == OpenWalls \cup {ClosedWall(w) : w \in OpenWalls}

\* RULES of bleveler.py: without versors at a vertex that is no border vertex.
BLEVELER_RULES ==
    [m \in BlockMatrices |->
        CASE MatrixKey(m) = 0 -> <<>>
          [] MatrixKey(m) = 1 -> (STILL :> RIGHT @@ UP :> RIGHT @@ LEFT :> DOWN)
          [] MatrixKey(m) = 2 -> (STILL :> DOWN @@ UP :> LEFT @@ RIGHT :> DOWN)
          [] MatrixKey(m) = 3 -> (STILL :> RIGHT @@ RIGHT :> RIGHT @@ LEFT :> LEFT)
          [] MatrixKey(m) = 4 -> (STILL :> UP @@ LEFT :> UP @@ DOWN :> RIGHT)
          [] MatrixKey(m) = 5 -> (STILL :> UP @@ UP :> UP @@ DOWN :> DOWN)
          [] MatrixKey(m) = 6 ->
                (STILL :> RIGHT @@ UP :> RIGHT @@ LEFT :> DOWN @@ RIGHT :> UP @@ DOWN :> LEFT)
          [] MatrixKey(m) = 7 -> (STILL :> UP @@ RIGHT :> UP @@ DOWN :> LEFT)
          [] MatrixKey(m) = 8 -> (STILL :> LEFT @@ RIGHT :> UP @@ DOWN :> LEFT)
          [] MatrixKey(m) = 9 ->
                (STILL :> RIGHT @@ UP :> LEFT @@ DOWN :> RIGHT @@ LEFT :> UP @@ RIGHT :> DOWN)
          [] MatrixKey(m) = 10 -> (STILL :> UP @@ UP :> UP @@ DOWN :> DOWN)
          [] MatrixKey(m) = 11 -> (STILL :> RIGHT @@ LEFT :> UP @@ DOWN :> RIGHT)
          [] MatrixKey(m) = 12 -> (STILL :> RIGHT @@ LEFT :> LEFT @@ RIGHT :> RIGHT)
          [] MatrixKey(m) = 13 -> (STILL :> LEFT @@ UP :> LEFT @@ RIGHT :> DOWN)
          [] MatrixKey(m) = 14 -> (STILL :> RIGHT @@ UP :> RIGHT @@ LEFT :> DOWN)
          [] OTHER -> <<>>]

\* len(versors) of an entry of BLEVELER_RULES.
RulesLen(versors) == Cardinality(DOMAIN versors)

\* The test of png2obj.py, `len(versors) == 4`, on an entry of BLEVELER_RULES.
BlevelerPassWeight_Four(versors) == IF RulesLen(versors) = 4 THEN 1 ELSE 2

\* `1 if len(versors) == 5 else 2`
BlevelerPassWeight(versors) == IF RulesLen(versors) = 5 THEN 1 ELSE 2

\* The three `continue`s of the candidate loop of build_walls.
BlevelerSkips(walls_map, tracked, vertex) ==
    LET n_versors == RulesLen(BLEVELER_RULES[BlockMatrixAt(walls_map, vertex)]) - 1
        n_passes == Count(tracked, vertex)
    IN  \/ n_versors = 0 - 1
        \/ n_versors = 4 /\ n_passes > 1
        \/ n_versors # 4 /\ n_passes > 0

RECURSIVE BlevelerWalk(_, _, _, _, _, _)
\* The `while True` loop of build_walls run to its `break`.
BlevelerWalk(walls_map, first, vertex, vers, perimeter, tracked) ==
    LET versors == BLEVELER_RULES[BlockMatrixAt(walls_map, vertex)]
        counted == CountAdd(tracked, vertex, BlevelerPassWeight(versors))
        versor_next == versors[vers]
        v_next == sum_vectors(vertex, versor_next)
    IN  IF v_next = first \/ Len(perimeter) > MaxWalk
        THEN [perimeter |-> Append(perimeter, v_next), tracked |-> counted]
        ELSE BlevelerWalk(walls_map, first, v_next, versor_next,
                          Append(perimeter, v_next), counted)

RECURSIVE BlevelerScan(_, _, _, _, _)
\* The for loop of build_walls from candidate number k on.
BlevelerScan(walls_map, cands, k, tracked, perimeters) ==
    IF k > Len(cands) THEN perimeters
    ELSE IF BlevelerSkips(walls_map, tracked, cands[k])
         THEN BlevelerScan(walls_map, cands, k + 1, tracked, perimeters)
         ELSE LET w == BlevelerWalk(walls_map, cands[k], cands[k], STILL, <<cands[k]>>, tracked)
              IN  BlevelerScan(walls_map, cands, k + 1, w.tracked,
                               Append(perimeters, Normalize(w.perimeter)))

\* build_walls(walls_map, map_size) with cell_size = 1.
build_walls(walls_map, size) ==
    IF walls_map = {} THEN <<>>
    ELSE SortedPerimeters(BlevelerScan(walls_map, get_grid_vertices(size), 1, <<>>, <<>>))

InitBleveler ==
    /\ \/ /\ bpc = "call"
          /\ bl_walls \in ListsOf(BlevelerWalls, MaxWalls)
          /\ map = {}
          /\ map_size = <<1, 1>>
       \/ /\ bpc = "build_walls"
          /\ bl_walls = <<>>
          /\ map_size \in {s \in (1..MaxW) \X (1..MaxH) : s[1] * s[2] <= MaxCells}
          /\ map \in SUBSET Boxes(map_size[1], map_size[2])
    /\ bl_verts = <<>>
    /\ bl_edges = <<>>
    /\ bl_ret = <<>>
    /\ ret = <<>>
    /\ WalkIdle
    /\ NormIdle
    /\ ExportIdle
    /\ PipeIdle
    /\ LookupIdle
    /\ FrameIdle

\* verts, edges = wall_perimeters_to_verts_edges(wall_perimeters)
VertsEdges ==
    /\ bpc = "call"
    /\ LET r == wall_perimeters_to_verts_edges(bl_walls)
       IN  /\ bl_verts' = r.verts
           /\ bl_edges' = r.edges
    /\ bpc' = "done"
    /\ UNCHANGED <<bl_walls, bl_ret>>
    /\ UNCHANGED <<buildVars, normVars, exportVars, pipeVars, lookupVars, frameVars>>

\* build_walls(walls_map, map_size)
BuildWalls ==
    /\ bpc = "build_walls"
    /\ bl_ret' = build_walls(map, map_size)
    /\ bpc' = "build"
    /\ UNCHANGED <<bl_walls, bl_verts, bl_edges>>
    /\ UNCHANGED <<buildVars, normVars, exportVars, pipeVars, lookupVars, frameVars>>

\* BlocksMap(walls_map, map_size).build() for the same map.
BuildSame ==
    /\ bpc = "build"
    /\ ret' = BuildResult(map, get_grid_vertices(map_size))
    /\ bpc' = "both"
    /\ UNCHANGED <<map, map_size, walkVars>>
    /\ UNCHANGED <<normVars, exportVars, pipeVars, lookupVars, frameVars>>
    /\ UNCHANGED <<bl_walls, bl_verts, bl_edges, bl_ret>>

NextBleveler ==
    \/ VertsEdges
    \/ BuildWalls
    \/ BuildSame

SpecBleveler == InitBleveler /\ [][NextBleveler]_vars

---------------------------------------------------------------------------
\* The list objects of the normaliser and of triangulate_walls: which object
\* every statement writes.

\* A list display, list(x) or deque(x): a new object with these elements.
NewList(h, obj, elements) == [h EXCEPT ![obj] = elements]

\* obj.append(x)
ListAppend(h, obj, x) == [h EXCEPT ![obj] = Append(@, x)]

\* remove_internal_edge_points(vertices) on list objects: the objects after
\* the call and the object returned.
remove_internal_edge_points_call(h, vertices) ==
    LET h1 == NewList(h, "ret", <<h[vertices][1]>>)
        h2 == [h1 EXCEPT !["ret"] = @ \o KeptMiddle(h1[vertices], 2)]
        h3 == ListAppend(h2, "ret", h2[vertices][Len(h2[vertices])])
    IN  [heap |-> h3, ret |-> "ret"]

\* remove_contiguous_values(lst) on list objects: `del lst[i]` on the object
\* it was given; it returns None.
remove_contiguous_values_call(h, lst) ==
    [heap |-> [h EXCEPT ![lst] = RemoveContiguousFrom(@, 1)], ret |-> "None"]

\* normalized_perimeter working on the list it was given instead of on
\* deque(wall_perimeter) and list(deq).
normalized_perimeter_call_InPlace(h, wall_perimeter_) ==
    LET minimum == MinVertex(h[wall_perimeter_])
        h2 == [h EXCEPT ![wall_perimeter_] = RotateTo(@, minimum)]
        h3 == ListAppend(h2, wall_perimeter_, h2[wall_perimeter_][1])
    IN  [heap |-> remove_contiguous_values_call(h3, wall_perimeter_).heap,
         ret |-> wall_perimeter_]

\* normalized_perimeter(wall_perimeter) on list objects.
normalized_perimeter_call(h, wall_perimeter_) ==
    LET minimum == MinVertex(h[wall_perimeter_])
        h1 == NewList(h, "deq", h[wall_perimeter_])
        h2 == [h1 EXCEPT !["deq"] = RotateTo(@, minimum)]
        h3 == ListAppend(h2, "deq", h2["deq"][1])
        h4 == NewList(h3, "ret", h3["deq"])
    IN  [heap |-> remove_contiguous_values_call(h4, "ret").heap, ret |-> "ret"]

\* triangulate_walls(wall_perimeters, holes) on list objects: for every
\* outcome the objects after the call and the object returned.
triangulate_walls_call(h, wall_perimeters, holes_) ==
    LET h1 == NewList(h, "unique_vertices",
                      wall_perimeters_to_unique_vertices(h[wall_perimeters]))
    IN  {[heap |-> NewList(NewList(h1, "segments", r.segments), "ret", r.triangles),
          ret |-> IF r.raised THEN "None" ELSE "ret"] :
            r \in triangulate_walls(h[wall_perimeters], h[holes_])}

\* A closed loop, as it is or with its last point twice.
FrameLoops == ClosedLoops \cup {Append(p, p[Len(p)]) : p \in ClosedLoops}

InitFrame ==
    /\ \/ /\ fpc \in {"remove_internal_edge_points", "remove_contiguous_values",
                      "normalized_perimeter"}
          /\ \E p \in FrameLoops : heap = [NoObjects EXCEPT !["arg"] = p]
       \/ /\ fpc = "triangulate_walls"
          /\ \E w \in DirectWalls, hs \in DirectHoles :
                heap = [NoObjects EXCEPT !["arg"] = w, !["holes"] = hs]
    /\ heap_before = heap
    /\ result = "None"
    /\ BuildIdle
    /\ NormIdle
    /\ ExportIdle
    /\ PipeIdle
    /\ LookupIdle
    /\ BlevelerIdle

notFrame == <<buildVars, normVars, exportVars, pipeVars, lookupVars, blevelerVars>>

\* remove_internal_edge_points(arg)
CallRemoveInternal ==
    /\ fpc = "remove_internal_edge_points"
    /\ \E r \in {remove_internal_edge_points_call(heap, "arg")} :
            heap' = r.heap /\ result' = r.ret
    /\ fpc' = "returned remove_internal_edge_points"
    /\ UNCHANGED heap_before
    /\ UNCHANGED notFrame

\* remove_contiguous_values(arg)
CallRemoveContiguous ==
    /\ fpc = "remove_contiguous_values"
    /\ \E r \in {remove_contiguous_values_call(heap, "arg")} :
            heap' = r.heap /\ result' = r.ret
    /\ fpc' = "returned remove_contiguous_values"
    /\ UNCHANGED heap_before
    /\ UNCHANGED notFrame

\* normalized_perimeter(arg)
CallNormalized ==
    /\ fpc = "normalized_perimeter"
    /\ \E r \in {normalized_perimeter_call(heap, "arg")} :
            heap' = r.heap /\ result' = r.ret
    /\ fpc' = "returned normalized_perimeter"
    /\ UNCHANGED heap_before
    /\ UNCHANGED notFrame

\* triangulate_walls(arg, holes)
CallTriangulate ==
    /\ fpc = "triangulate_walls"
    /\ \E r \in triangulate_walls_call(heap, "arg", "holes") :
            heap' = r.heap /\ result' = r.ret
    /\ fpc' = "returned triangulate_walls"
    /\ UNCHANGED heap_before
    /\ UNCHANGED notFrame

NextFrame ==
    \/ CallRemoveInternal
    \/ CallRemoveContiguous
    \/ CallNormalized
    \/ CallTriangulate

SpecFrame == InitFrame /\ [][NextFrame]_vars

---------------------------------------------------------------------------
\* Shapes used to state the properties.

\* The boxes of columns x0..x1-1 and rows y0..y1-1.
RectBoxes(x0, y0, x1, y1) == (x0..(x1 - 1)) \X (y0..(y1 - 1))

\* The corners of that rectangle from the top-left one, x increasing first,
\* closed by repeating the first point.
RectPerimeter(x0, y0, x1, y1) ==
    <<<<x0, y0>>, <<x1, y0>>, <<x1, y1>>, <<x0, y1>>, <<x0, y0>>>>

\* <<x0, y0, x1, y1>> of the smallest rectangle holding the boxes of S.
BoundingBox(S) ==
    LET xs == {b[1] : b \in S}
        ys == {b[2] : b \in S}
        lo(T) == CHOOSE n \in T : \A k \in T : n <= k
        hi(T) == CHOOSE n \in T : \A k \in T : n >= k
    IN  <<lo(xs), lo(ys), hi(xs) + 1, hi(ys) + 1>>

BoundingRect(S) ==
    LET bb == BoundingBox(S) IN RectBoxes(bb[1], bb[2], bb[3], bb[4])

\* The blocks are a solid rectangle minus a rectangular walkable interior
\* that does not touch the outside of the rectangle.
IsRing ==
    /\ map # {}
    /\ LET hole == BoundingRect(map) \ map
       IN  /\ hole # {}
           /\ hole = BoundingRect(hole)
           /\ LET bb == BoundingBox(map)
                  hb == BoundingBox(hole)
              IN  bb[1] < hb[1] /\ hb[3] < bb[3] /\ bb[2] < hb[2] /\ hb[4] < bb[4]

Done == pc = "done"

---------------------------------------------------------------------------
\* C1: every perimeter returned by build is closed: its first element equals
\* its last element and it has at least 4 distinct points.
C1_PerimetersClosed ==
    Done => \A i \in 1..Len(ret) :
                /\ ret[i][1] = ret[i][Len(ret[i])]
                /\ Cardinality(Range(ret[i])) >= 4

\* build returned two perimeters or more, one of them with more than 4 corners.
C1_Witness ==
    /\ Done
    /\ Len(ret) >= 2
    /\ \E i \in 1..Len(ret) : Len(ret[i]) > 5

\* C2: when the blocks are exactly one solid rectangle (anywhere, also filling
\* the grid), build returns exactly that rectangle's perimeter.
C2_SolidRectangle ==
    (Done /\ map # {} /\ map = BoundingRect(map))
        => LET bb == BoundingBox(map)
           IN  ret = <<RectPerimeter(bb[1], bb[2], bb[3], bb[4])>>

\* build has returned for a rectangle of 2 x 3 boxes that touches the right
\* and the lower border of the grid but not the left one.
C2_Witness ==
    /\ Done
    /\ map_size = <<3, 3>>
    /\ map = RectBoxes(1, 0, 3, 3)
    /\ ret = <<RectPerimeter(1, 0, 3, 3)>>

\* C3: for a grid without any block build returns the empty list and takes no
\* walker step; and no walk ever starts at a vertex whose four neighbour
\* boxes are all walkable or all blocks.
C3_NoBlocksNoWalk ==
    /\ (Done /\ map = {}) => (ret = <<>> /\ steps = <<>>)
    /\ \A i \in 1..Len(steps) :
            steps[i].vin = STILL
                => MatrixKey(BlockMatrixAt(map, steps[i].at)) \notin {0, 15}
    /\ pc \in {"walk", "close"}
            => MatrixKey(BlockMatrixAt(map, first_vertex)) \notin {0, 15}

\* build has returned for the 3 x 3 grid without blocks.
C3_Witness ==
    /\ Done
    /\ map_size = <<3, 3>>
    /\ map = {}
    /\ ret = <<>>

\* C4: when the blocks form a closed rectangular ring, build returns exactly
\* the outer rectangle and the inner rectangle, each from its top-left corner
\* with x increasing first.
C4_Ring ==
    (Done /\ IsRing)
        => LET bb == BoundingBox(map)
               hb == BoundingBox(BoundingRect(map) \ map)
           IN  ret = <<RectPerimeter(bb[1], bb[2], bb[3], bb[4]),
                       RectPerimeter(hb[1], hb[2], hb[3], hb[4])>>

\* build has returned for the ring of 8 blocks around the box (1, 1).
C4_Witness ==
    /\ Done
    /\ map = RectBoxes(0, 0, 3, 3) \ {<<1, 1>>}
    /\ Len(ret) = 2

\* No two blocks share an edge or a corner.
IsolatedBlocks ==
    \A b \in map, c \in map :
        b # c => (b[1] - c[1] > 1 \/ c[1] - b[1] > 1 \/ b[2] - c[2] > 1 \/ c[2] - b[2] > 1)

UnitSquare(b) == RectPerimeter(b[1], b[2], b[1] + 1, b[2] + 1)

\* C5: when the blocks are single boxes no two of which touch, build returns
\* one unit square per block and nothing else.
C5_IsolatedBlocks ==
    (Done /\ IsolatedBlocks)
        => /\ Len(ret) = Cardinality(map)
           /\ Range(ret) = {UnitSquare(b) : b \in map}

\* build has returned for the 4blocks fixture.
C5_Witness ==
    /\ Done
    /\ map = {<<0, 0>>, <<2, 0>>, <<0, 2>>, <<2, 2>>}
    /\ Len(ret) = 4

---------------------------------------------------------------------------
\* Saddle vertices and the side of the blocks.

Lattice(w, h) == (0..w) \X (0..h)

\* The vertices with exactly two diagonally opposite blocks around them.
SaddleVertices ==
    {v \in Lattice(map_size[1], map_size[2]) : MatrixKey(BlockMatrixAt(map, v)) \in {6, 9}}

\* The walker steps that passed vertex v.
PassesAt(v) == {i \in 1..Len(steps) : steps[i].at = v}

\* The box on the right-hand side of the unit edge leaving vertex v in direction d.
RightBox(v, d) ==
    CASE d = RIGHT -> <<v[1], v[2]>>
      [] d = DOWN -> <<v[1] - 1, v[2]>>
      [] d = LEFT -> <<v[1] - 1, v[2] - 1>>
      [] d = UP -> <<v[1], v[2] - 1>>
      [] OTHER -> <<v[1], v[2]>>

\* The box on the left-hand side of that edge.
LeftBox(v, d) ==
    CASE d = RIGHT -> <<v[1], v[2] - 1>>
      [] d = DOWN -> <<v[1], v[2]>>
      [] d = LEFT -> <<v[1] - 1, v[2]>>
      [] d = UP -> <<v[1] - 1, v[2] - 1>>
      [] OTHER -> <<v[1], v[2]>>

BlockedOnRight(s) ==
    /\ s.vout # STILL
    /\ RightBox(s.at, s.vout) \in map
    /\ LeftBox(s.at, s.vout) \notin map

BlockedOnLeft(s) ==
    /\ s.vout # STILL
    /\ LeftBox(s.at, s.vout) \in map
    /\ RightBox(s.at, s.vout) \notin map

\* How often vertex v is listed by the returned perimeters, the closing
\* repetition of each perimeter's first point left out.
Occurrences(v) ==
    Cardinality(UNION {{<<k, i>> : i \in {j \in 1..(Len(ret[k]) - 1) : ret[k][j] = v}}
                            : k \in 1..Len(ret)})

\* C6 as stated: every saddle vertex is passed exactly twice, by two
\* different transitions, and the two passes belong to two different walks.
C6_SaddleTwoPerimeters ==
    Done => \A v \in SaddleVertices :
                \E i \in PassesAt(v), j \in PassesAt(v) :
                    /\ i # j
                    /\ PassesAt(v) = {i, j}
                    /\ steps[i].vin # steps[j].vin
                    /\ steps[i].vout # steps[j].vout
                    /\ steps[i].walk # steps[j].walk

\* C6 (amended): every saddle vertex is passed exactly twice, each pass by a
\* different transition (different versor on arrival, different versor
\* chosen), and the returned perimeters list it exactly twice; the two
\* passes may belong to one and the same perimeter.
C6_SaddleTwoPasses ==
    Done => \A v \in SaddleVertices :
                /\ \E i \in PassesAt(v), j \in PassesAt(v) :
                        /\ i # j
                        /\ PassesAt(v) = {i, j}
                        /\ steps[i].vin # steps[j].vin
                        /\ steps[i].vout # steps[j].vout
                /\ Occurrences(v) = 2

\* build has returned and one saddle vertex was passed twice by one and the
\* same walk, by two different transitions, so that a single returned
\* perimeter lists it twice.
C6_Witness ==
    /\ Done
    /\ \E v \in SaddleVertices : \E i \in PassesAt(v), j \in PassesAt(v) :
            /\ i # j
            /\ steps[i].walk = steps[j].walk
            /\ steps[i].vout # steps[j].vout
            /\ Occurrences(v) = 2

\* C7 as stated: on every step of every walk the block lies on the same side
\* of the direction of travel.
C7_SameSideEverywhere ==
    \A i \in 1..Len(steps), j \in 1..Len(steps) :
        \/ BlockedOnRight(steps[i]) /\ BlockedOnRight(steps[j])
        \/ BlockedOnLeft(steps[i]) /\ BlockedOnLeft(steps[j])

\* C7 (amended): every step runs along an edge between a block and a walkable
\* box, and within one walk the block stays on one side: on the right when
\* the walk started at a vertex whose lower-right box is a block (the outer
\* boundary of a wall), on the left otherwise (the boundary of an enclosed
\* walkable region).
C7_SameSidePerWalk ==
    \A i \in 1..Len(steps) :
        IF steps[i].first \in map
        THEN BlockedOnRight(steps[i])
        ELSE BlockedOnLeft(steps[i])

\* build has returned with a walk that kept the blocks on its right and a
\* walk that kept them on its left.
C7_Witness ==
    /\ Done
    /\ \E i \in 1..Len(steps) : BlockedOnRight(steps[i])
    /\ \E i \in 1..Len(steps) : BlockedOnLeft(steps[i])

---------------------------------------------------------------------------
\* The order of the start candidates.

\* Every candidate comes after its left and its upper neighbour, as in the
\* column-major order of get_grid_vertices and in the row-major order.
Monotone(cands) ==
    \A i \in 1..Len(cands), j \in 1..Len(cands) :
        (cands[i] = <<cands[j][1] - 1, cands[j][2]>>
            \/ cands[i] = <<cands[j][1], cands[j][2] - 1>>) => i < j

---------------------------------------------------------------------------
\* Normalisation of closed loops.

\* C9: normalising (remove_internal_edge_points, then normalized_perimeter)
\* the result of normalising a closed loop returns the identical sequence.
C9_NormalizeIdempotent ==
    npc = "twice" => out2 = out1

\* How often point v occurs in the cycle of the closed loop p.
CycleCount(p, v) == Cardinality({i \in 1..(Len(p) - 1) : p[i] = v})

\* No point of loop p is smaller than v.
Smallest(p, v) == v \in Range(p) /\ \A u \in Range(p) : ~VertexLess(u, v)

\* C10 as stated: for a closed loop and the same cycle listed from another
\* starting point normalized_perimeter returns equal sequences, each
\* beginning and ending with the smallest point.
C10_RestartedEqual ==
    npc = "restarted"
        => /\ out1 = out2
           /\ Smallest(loop, out1[1])
           /\ out1[Len(out1)] = out1[1]

\* C10 (amended): both results begin and end with the smallest point, and
\* they are equal when the smallest point occurs only once in the cycle.
C10_RestartedEqualMinOnce ==
    npc = "restarted"
        => /\ Smallest(loop, out1[1])
           /\ out1[Len(out1)] = out1[1]
           /\ out2[1] = out1[1]
           /\ out2[Len(out2)] = out1[1]
           /\ CycleCount(loop, out1[1]) = 1 => out1 = out2

\* normalized_perimeter has rotated a loop around two boxes that does not
\* start at its smallest point, and the same cycle from another start.
C10_Witness ==
    /\ npc = "restarted"
    /\ Len(loop) = 7
    /\ Cardinality(Range(loop)) = 6
    /\ loop[1] # MinVertex(loop)
    /\ other[1] # MinVertex(loop)
    /\ out1 = out2
    /\ out1 # loop

---------------------------------------------------------------------------
\* The exported text.

\* The number of vertex lines at the head of the text exported for mesh.
VertexBlock == Len(text) - Len(mesh)

\* C11 as stated: export_mesh applied to two meshes that contain the same
\* faces supplied in a different insertion order returns identical text.
C11_ReorderedIdentical ==
    epc = "reordered" => text_b = text

\* C11 (amended): the two texts have the same vertex lines and give every
\* face the same face line; the face lines follow the insertion order of
\* each mesh.
C11_ReorderedSameLines ==
    epc = "reordered"
        => /\ Len(text_b) = Len(text)
           /\ \A i \in 1..VertexBlock : text_b[i] = text[i]
           /\ \A j \in 1..Len(mesh) :
                /\ text[VertexBlock + j].kind = "f"
                /\ \A k \in 1..Len(mesh_b) :
                        mesh_b[k] = mesh[j] => text_b[VertexBlock + k] = text[VertexBlock + j]

\* Two different faces that between them use every vertex were exported in
\* both orders, and the two texts differ.
C11_Witness ==
    /\ epc = "reordered"
    /\ Len(mesh) = 2
    /\ mesh_b = <<mesh[2], mesh[1]>>
    /\ Cardinality(UniqueVertices(mesh)) = 4
    /\ text_b # text

\* The 1-based position of vertex v among the distinct vertices of the mesh in
\* ascending order of (x, y, z).
Rank(v) == 1 + Cardinality({u \in UniqueVertices(mesh) : Less3(u, v)})

\* C12: the vertex block of export_mesh lists every distinct vertex of the
\* mesh once, in ascending order of (x, y, z) (written right = x,
\* forward = z, up = y, six decimals), and the k-th index of the j-th face line
\* is the position in that block of the k-th vertex of the j-th face.
C12_VertexBlockAndIndices ==
    epc = "exported"
        => /\ Len(text) = Cardinality(UniqueVertices(mesh)) + Len(mesh)
           /\ \A v \in UniqueVertices(mesh) :
                text[Rank(v)] = [kind |-> "v",
                                 nums |-> <<v[1] * 1000000, v[3] * 1000000, v[2] * 1000000>>]
           /\ \A j \in 1..Len(mesh) :
                LET line == text[Cardinality(UniqueVertices(mesh)) + j]
                IN  /\ line.kind = "f"
                    /\ Len(line.nums) = Len(mesh[j])
                    /\ \A k \in 1..Len(mesh[j]) : line.nums[k] = Rank(mesh[j][k])

\* Two faces sharing a vertex were exported, and the faces do not list the
\* vertices in ascending order.
C12_Witness ==
    /\ epc = "exported"
    /\ Len(mesh) = 2
    /\ Range(mesh[1]) \cap Range(mesh[2]) # {}
    /\ Range(mesh[1]) # Range(mesh[2])
    /\ Less3(mesh[1][2], mesh[1][1])
    /\ Len(text) = Cardinality(UniqueVertices(mesh)) + 2

\* No vertex line follows a face line in the list of lines t.
VerticesFirst(t) ==
    \A i \in 1..Len(t), j \in 1..Len(t) :
        (t[i].kind = "f" /\ t[j].kind = "v") => j < i

\* C13: in the text of export_mesh and of create_wavefront every vertex line
\* precedes every face line.
C13_VerticesBeforeFaces ==
    VerticesFirst(text) /\ VerticesFirst(text_b)

\* export_mesh has returned a text with vertex lines and two face lines.
C13_Witness ==
    /\ epc = "exported"
    /\ Len(mesh) = 2
    /\ \E i \in 1..Len(text) : text[i].kind = "v"
    /\ \E i \in 1..Len(text) : text[i].kind = "f"

---------------------------------------------------------------------------
\* The pipeline.

\* matrix2obj has failed at one of its stages.
Failed == ppc \in {"failed_mat2map", "failed_build", "failed_triangulate", "failed_export"}

\* C14: a walkable matrix whose rows differ in length is rejected by mat2map
\* / matrix2obj with an error before the tracing of perimeters begins: the
\* pipeline gets no further than a failed mat2map.
C14_RaggedRejected ==
    Ragged(matrix) => ppc \in {"mat2map", "failed_mat2map"}

\* C15: when a stage of matrix2obj fails, the previously valid file at the
\* destination path is intact.
C15_OutputIntactOnFailure ==
    Failed => dst_file = "previous"

\* triangulate_walls has been called and is over.
Triangulated ==
    ppc \in {"returned", "raised", "open", "write", "done", "failed_triangulate",
             "failed_export"}

\* C16: triangulate_walls called with no wall perimeters, with or without
\* hole seeds, returns the empty list of triangles, without calling the
\* external triangulation and without raising.
C16_NoWallsNoTriangulation ==
    (Triangulated /\ ret = <<>>)
        => /\ ppc \notin {"raised", "failed_triangulate"}
           /\ triangles = <<>>
           /\ ~tri_called

\* triangulate_walls has returned from a call with hole seeds and no walls.
C16_Witness ==
    /\ ppc = "returned"
    /\ ret = <<>>
    /\ holes # <<>>
    /\ triangles = <<>>

\* The cells of the matrix, the walkable ones, and the four neighbours of a
\* cell.
Cells(m) == UNION {{<<x - 1, y - 1>> : x \in 1..Len(m[y])} : y \in 1..Len(m)}
WalkableCells(m) == {c \in Cells(m) : m[c[2] + 1][c[1] + 1] # 0}
Around(c) ==
    {<<c[1] - 1, c[2]>>, <<c[1] + 1, c[2]>>, <<c[1], c[2] - 1>>, <<c[1], c[2] + 1>>}

RECURSIVE Region(_, _)
\* The cells of W connected to those of S through neighbours in W.
Region(S, W) ==
    LET grown == S \cup {c \in W : Around(c) \cap S # {}}
    IN  IF grown = S THEN S ELSE Region(grown, W)

\* The enclosed walkable regions: the connected sets of walkable cells none
\* of which has a neighbour outside the matrix.
EnclosedRegions(m) ==
    {R \in {Region({c}, WalkableCells(m)) : c \in WalkableCells(m)} :
        \A c \in R : Around(c) \subseteq Cells(m)}

\* The centre (x + 0.5, y + 0.5) of cell c, in half units.
Centre(c) == <<2 * c[1] + 1, 2 * c[2] + 1>>

\* The hole seeds have been computed.
Seeded == ppc \in {"open", "write", "done", "failed_triangulate", "failed_export"}

\* C17 as stated: the hole seeds are exactly one interior point per enclosed
\* walkable region of the grid.
C17_OneSeedPerEnclosedRegion ==
    Seeded
        => /\ Len(holes) = Cardinality(EnclosedRegions(matrix))
           /\ \A R \in EnclosedRegions(matrix) :
                Cardinality({i \in 1..Len(holes) : \E c \in R : holes[i] = Centre(c)}) = 1

\* C17 (amended): the hole seeds are exactly one point per walkable cell of
\* the grid, its centre, whether the cell is enclosed or not.
C17_OneSeedPerWalkableCell ==
    Seeded
        => /\ Len(holes) = Cardinality(WalkableCells(matrix))
           /\ \A c \in WalkableCells(matrix) : \E i \in 1..Len(holes) : holes[i] = Centre(c)

\* matrix2obj is done for a grid with an enclosed walkable region and
\* walkable cells outside it, in a row that also has a block.
C17_Witness ==
    /\ ppc = "done"
    /\ EnclosedRegions(matrix) # {}
    /\ Len(holes) > Cardinality(EnclosedRegions(matrix))
    /\ \E c \in WalkableCells(matrix) : c[1] # c[2]

\* The point s (in half units) lies inside the polygon p of lattice
\* vertices: the ray from s to the right crosses an odd number of vertical
\* edges of p.
Inside(s, p) ==
    Cardinality({i \in 1..(Len(p) - 1) :
                    /\ p[i][1] = p[i + 1][1]
                    /\ 2 * p[i][1] > s[1]
                    /\ \/ 2 * p[i][2] < s[2] /\ s[2] < 2 * p[i + 1][2]
                       \/ 2 * p[i + 1][2] < s[2] /\ s[2] < 2 * p[i][2]}) % 2 = 1

\* The wall is a ring: build returned its outer perimeter, then its inner
\* perimeter.
RingTraced == Seeded /\ IsRing /\ Len(ret) = 2 /\ ret[1][1] # ret[2][1]

\* C18 as stated: for a ring-shaped wall every hole seed lies inside the
\* outer perimeter polygon and outside the inner perimeter polygon.
C18_SeedsBetweenPerimeters ==
    RingTraced
        => \A i \in 1..Len(holes) : Inside(holes[i], ret[1]) /\ ~Inside(holes[i], ret[2])

\* C18 (amended): for a ring-shaped wall no hole seed lies in the wall
\* (inside the outer and outside the inner perimeter polygon): every seed
\* lies inside the inner perimeter polygon or outside the outer one, and the
\* enclosed region has a seed.
C18_SeedsOffTheWall ==
    RingTraced
        => /\ \A i \in 1..Len(holes) :
                Inside(holes[i], ret[2]) \/ ~Inside(holes[i], ret[1])
           /\ \E i \in 1..Len(holes) : Inside(holes[i], ret[2])

\* The o_room_1x1 fixture went through matrix2obj: seeds inside the inner
\* perimeter and seeds outside the outer perimeter.
C18_Witness ==
    /\ ppc = "done"
    /\ matrix = o_room_1x1
    /\ RingTraced
    /\ \E i \in 1..Len(holes) : Inside(holes[i], ret[2])
    /\ \E i \in 1..Len(holes) : ~Inside(holes[i], ret[1])

---------------------------------------------------------------------------
\* The grid lookup.

\* Whether the box c is a cell of the grid.
InGrid(c) == c \in Boxes(map_size[1], map_size[2])

\* b(c): 1 for a blocked cell of the grid, 0 for a walkable cell and for
\* every cell outside the grid.
Blocked(c) == IF InGrid(c) /\ c \in map_before THEN 1 ELSE 0

\* C19: for a lattice vertex (x, y) the lookup returns
\* ((b(x-1, y-1), b(x, y-1)), (b(x-1, y), b(x, y))), a cell outside the grid
\* counting as walkable, and the blocks map is what it was before the lookup.
C19_LookupOccupancy ==
    lpc = "done" =>
        /\ block_matrix =
               <<<<Blocked(<<arg_xy[1] - 1, arg_xy[2] - 1>>), Blocked(<<arg_xy[1], arg_xy[2] - 1>>)>>,
                 <<Blocked(<<arg_xy[1] - 1, arg_xy[2]>>), Blocked(<<arg_xy[1], arg_xy[2]>>)>>>>
        /\ map = map_before

\* A lookup at the top right corner of the grid, whose only neighbour in the
\* grid is a block: three neighbours are outside and reported walkable.
C19_Witness ==
    /\ lpc = "done"
    /\ arg_xy = <<map_size[1], 0>>
    /\ <<map_size[1] - 1, 0>> \in map
    /\ block_matrix = <<<<0, 0>>, <<1, 0>>>>

---------------------------------------------------------------------------
\* The vertices and edges of bleveler.

\* Whether the list has no element twice.
Distinct(l) == \A i, j \in 1..Len(l) : l[i] = l[j] => i = j

\* One edge per consecutive pair of a wall given as distinct vertices, the
\* closing edge from the last vertex to the first included.
ClosedEdges(wall, vs) ==
    [i \in 1..Len(wall) |->
        <<VertsIndex(vs, wall[i]), VertsIndex(vs, wall[(i % Len(wall)) + 1])>>]

\* C20: the vertices returned are the distinct vertices in first-occurrence
\* order, and every wall given as distinct vertices contributes one edge per
\* consecutive pair, the closing edge included: as many edges as vertices.
C20_ClosingEdgeIncluded ==
    (bpc = "done" /\ \A k \in 1..Len(bl_walls) : Distinct(bl_walls[k])) =>
        /\ Distinct(bl_verts)
        /\ {bl_verts[i] : i \in 1..Len(bl_verts)}
               = UNION {{bl_walls[k][i] : i \in 1..Len(bl_walls[k])} : k \in 1..Len(bl_walls)}
        /\ bl_edges = Flatten([k \in 1..Len(bl_walls) |-> ClosedEdges(bl_walls[k], bl_verts)])

\* The docstring's example: 8 edges, among them (3, 0) and (6, 2).
C20_DocstringEdges ==
    (bpc = "done" /\ bl_walls = DocWalls) =>
        bl_edges = <<<<0, 1>>, <<1, 2>>, <<2, 3>>, <<3, 0>>,
                     <<2, 4>>, <<4, 5>>, <<5, 6>>, <<6, 2>>>>

\* What the code returns for the docstring's example: 6 edges, no closing one.
C20_DocstringActual ==
    (bpc = "done" /\ bl_walls = DocWalls) =>
        /\ bl_verts = <<<<0, 0>>, <<3, 0>>, <<3, 1>>, <<0, 1>>, <<4, 1>>, <<4, 2>>, <<3, 2>>>>
        /\ bl_edges = <<<<0, 1>>, <<1, 2>>, <<2, 3>>, <<2, 4>>, <<4, 5>>, <<5, 6>>>>

---------------------------------------------------------------------------
\* The zero-index check of create_wavefront.

\* create_wavefront was called with its own lists, zero_index false and a
\* face that holds index 0.
ZeroIndexFace ==
    /\ epc \in {"created", "raised"}
    /\ ~cw.triangulate_result.given
    /\ ~cw.zero_index
    /\ \E i \in 1..Len(cw.faces) : 0 \in Range(cw.faces[i])

---------------------------------------------------------------------------
\* How often the walks pass a vertex.

\* The number of versors possible at lattice vertex v.
Versors(v) == Len(POSSIBLE_DIRECTIONS[BlockMatrixAt(map, v)])

\* The lattice vertices of the grid and the ring of vertices around them.
WiderLattice == ((0 - 1)..(map_size[1] + 1)) \X ((0 - 1)..(map_size[2] + 1))

\* C22: when build has finished, every vertex with exactly two possible
\* versors was passed by exactly one walker step and every saddle vertex by
\* exactly two, over all walks together, the return to a walk's start vertex
\* not being a step; and at no time was a vertex without possible versors
\* passed.
C22_PassCounts ==
    /\ Done => \A v \in Lattice(map_size[1], map_size[2]) :
                    /\ Versors(v) = 2 => Cardinality(PassesAt(v)) = 1
                    /\ Versors(v) = 4 => Cardinality(PassesAt(v)) = 2
    /\ \A i \in 1..Len(steps) : Versors(steps[i].at) \in {2, 4}
    /\ \A v \in WiderLattice : Versors(v) = 0 => PassesAt(v) = {}

\* build has finished on a grid with a saddle vertex that starts the second
\* loop through it, and with ordinary boundary vertices on the right and on
\* the lower border of the grid.
C22_Witness ==
    /\ Done
    /\ map_size = <<2, 2>>
    /\ map = {<<0, 0>>, <<1, 1>>}
    /\ Cardinality(PassesAt(<<1, 1>>)) = 2
    /\ Cardinality(PassesAt(<<2, 1>>)) = 1
    /\ Cardinality(PassesAt(<<1, 2>>)) = 1

---------------------------------------------------------------------------
\* Termination of build.

\* C23: for every rectangular grid every walk that build starts comes back to
\* its start vertex, which ends the inner loop, and build returns.
C23_BuildTerminates ==
    /\ (pc = "walk") ~> (pc = "close" /\ wall_vertex = first_vertex)
    /\ <>(pc = "done")

\* build has returned after two walks or more, one of them of 12 steps or
\* more.
C23_Witness ==
    /\ Done
    /\ Len(ret) >= 2
    /\ \E i \in 1..Len(steps) :
            Cardinality({j \in 1..Len(steps) : steps[j].walk = steps[i].walk}) >= 12

---------------------------------------------------------------------------
\* The points kept by remove_internal_edge_points.

\* The step from point a to point b.
StepVector(a, b) == <<b[1] - a[1], b[2] - a[2]>>

\* The positions between the first and the last of list p at which the step
\* in differs from the step out.
Turns(p) ==
    {i \in 2..(Len(p) - 1) : StepVector(p[i - 1], p[i]) # StepVector(p[i], p[i + 1])}

\* C24: remove_internal_edge_points returns the first point of its input,
\* then, in their order, exactly the points in between whose step in differs
\* from their step out, then the last point.
C24_CornersKept ==
    npc = "corners" =>
        /\ Len(out1) = Cardinality(Turns(loop)) + 2
        /\ out1[1] = loop[1]
        /\ out1[Len(out1)] = loop[Len(loop)]
        /\ \A i \in Turns(loop) :
                out1[1 + Cardinality({j \in Turns(loop) : j <= i})] = loop[i]

\* The function has dropped the middle of a straight run of a loop and kept
\* three corners or more.
C24_Witness ==
    /\ npc = "corners"
    /\ \E i \in 2..(Len(loop) - 1) : i \notin Turns(loop)
    /\ Cardinality(Turns(loop)) >= 3
    /\ Len(out1) < Len(loop)

---------------------------------------------------------------------------
\* The two tracers.

\* C25: for every blocks map and map size build_walls of bleveler.py returns
\* the list of perimeters that BlocksMap.build of png2obj.py returns.
C25_TracersAgree ==
    bpc = "both" => bl_ret = ret

\* Both tracers have returned two perimeters or more for a map with a
\* saddle vertex.
C25_Witness ==
    /\ bpc = "both"
    /\ SaddleVertices # {}
    /\ Len(bl_ret) >= 2
    /\ Len(ret) >= 2

---------------------------------------------------------------------------
\* The lattice edges walked.

\* The unit lattice edge, as the set of its two ends, walked by step s.
EdgeOf(s) == {s.at, sum_vectors(s.at, s.vout)}

\* The four sides of box b: the edge and the box on its other side.
Sides(b) ==
    {<<{<<b[1], b[2]>>, <<b[1] + 1, b[2]>>}, <<b[1], b[2] - 1>>>>,
     <<{<<b[1], b[2] + 1>>, <<b[1] + 1, b[2] + 1>>}, <<b[1], b[2] + 1>>>>,
     <<{<<b[1], b[2]>>, <<b[1], b[2] + 1>>}, <<b[1] - 1, b[2]>>>>,
     <<{<<b[1] + 1, b[2]>>, <<b[1] + 1, b[2] + 1>>}, <<b[1] + 1, b[2]>>>>}

\* The unit lattice edges between a block and a box that is walkable or
\* outside the grid.
BoundaryEdges ==
    {side[1] : side \in {sd \in UNION {Sides(b) : b \in map} : sd[2] \notin map}}

\* C26: over all walks of build, before the collinear points are removed,
\* every unit lattice edge between a block and a box that is walkable or
\* outside the grid is walked exactly once, and no other edge is ever walked.
C26_BoundaryEdgesOnce ==
    /\ \A i \in 1..Len(steps) : EdgeOf(steps[i]) \in BoundaryEdges
    /\ \A i, j \in 1..Len(steps) : EdgeOf(steps[i]) = EdgeOf(steps[j]) => i = j
    /\ Done => \A e \in BoundaryEdges : \E i \in 1..Len(steps) : EdgeOf(steps[i]) = e

\* build has finished for the ring of 8 blocks around the box (1, 1), having
\* walked the 12 edges on the border of the grid and the 4 edges inside it.
C26_Witness ==
    /\ Done
    /\ map = RectBoxes(0, 0, 3, 3) \ {<<1, 1>>}
    /\ Cardinality(BoundaryEdges) = 16
    /\ Len(steps) = 16

---------------------------------------------------------------------------
\* Where a walk starts.

\* Points a, b, c lie on one straight line.
Collinear(a, b, c) == (b[1] - a[1]) * (c[2] - b[2]) = (b[2] - a[2]) * (c[1] - b[1])

\* The closed loop p has three consecutive points on one line, the points
\* before and after its closing point included.
HasStraightCorner(p) ==
    LET n == Len(p) - 1
    IN  \E i \in 1..n : Collinear(p[((i + n - 2) % n) + 1], p[i], p[i + 1])

\* C27: every walk of build starts at the smallest vertex, by x and then y,
\* of the loop it walks; so normalized_perimeter does not rotate what the
\* tracer hands to it, and no returned perimeter has three consecutive
\* collinear points, around its closing point either.
C27_StartsAtSmallest ==
    /\ \A i \in 1..Len(steps) : ~VertexLess(steps[i].at, steps[i].first)
    /\ pc = "close" =>
            /\ Smallest(wall_perimeter, wall_perimeter[1])
            /\ normalized_perimeter(remove_internal_edge_points(wall_perimeter))
                    = remove_internal_edge_points(wall_perimeter)
    /\ Done => \A k \in 1..Len(ret) : ~HasStraightCorner(ret[k])

\* A walk through a saddle vertex is about to be normalised, after a first
\* walk was appended; its start is no start candidate of the first row.
C27_Witness ==
    /\ pc = "close"
    /\ Len(ret) >= 1
    /\ first_vertex[2] > 0
    /\ \E v \in SaddleVertices : v \in Range(wall_perimeter)
    /\ Len(wall_perimeter) >= 7

---------------------------------------------------------------------------
\* The lookups of the walker.

\* The versor opposite to versor d.
Reverse(d) == <<0 - d[1], 0 - d[2]>>

\* C28: no lookup in RULES fails during build: every walker step is taken at
\* a boundary vertex of the lattice [0..width] x [0..height] with a versor
\* on arrival that RULES holds for the vertex's blocks matrix, and the versor
\* it yields is one of POSSIBLE_DIRECTIONS for that matrix and not the
\* reverse of the versor on arrival.
C28_LookupsSucceed ==
    /\ pc # "error"
    /\ pc = "walk" =>
            /\ wall_vertex \in Lattice(map_size[1], map_size[2])
            /\ versor \in DOMAIN RULES[BlockMatrixAt(map, wall_vertex)]
    /\ \A i \in 1..Len(steps) :
            LET blocks_matrix == BlockMatrixAt(map, steps[i].at)
            IN  /\ steps[i].at \in Lattice(map_size[1], map_size[2])
                /\ Len(POSSIBLE_DIRECTIONS[blocks_matrix]) \in {2, 4}
                /\ steps[i].vin \in DOMAIN RULES[blocks_matrix]
                /\ steps[i].vout = RULES[blocks_matrix][steps[i].vin]
                /\ steps[i].vout \in Range(POSSIBLE_DIRECTIONS[blocks_matrix])
                /\ steps[i].vin # STILL => steps[i].vout # Reverse(steps[i].vin)

\* The walker is on the right border of the lattice, arrived at a saddle
\* vertex before, and is about to look its next versor up.
C28_Witness ==
    /\ pc = "walk"
    /\ wall_vertex[1] = map_size[1]
    /\ versor # STILL
    /\ \E i \in 1..Len(steps) : steps[i].at \in SaddleVertices /\ steps[i].vin # STILL


\* matrix2obj has called triangulate_walls on the perimeters of build.
BuildTriangulated ==
    ppc \in {"open", "write", "done", "failed_triangulate", "failed_export"}

\* C29: on the perimeters build returned, perimeters sharing a vertex
\* included, no assertion of list_to_index_map or of triangulate_walls
\* fails, and the segments are one couple of vertex indices per couple of
\* consecutive perimeter vertices, in order.
C29_AssertionsHold ==
    BuildTriangulated =>
        LET unique_vertices == wall_perimeters_to_unique_vertices(ret)
            wall_edges == WallEdgeList(ret)
        IN  /\ tri_assert = "none"
            /\ NoDuplicates(unique_vertices)
            /\ Len(segments) = Len(wall_edges)
            /\ \A i \in 1..Len(wall_edges) :
                    /\ segments[i][1] \in 0..(Len(unique_vertices) - 1)
                    /\ segments[i][2] \in 0..(Len(unique_vertices) - 1)
                    /\ unique_vertices[segments[i][1] + 1] = wall_edges[i][1]
                    /\ unique_vertices[segments[i][2] + 1] = wall_edges[i][2]

\* triangulate_walls has gone through its assertions on two perimeters
\* that meet at a vertex.
C29_Witness ==
    /\ BuildTriangulated
    /\ tri_assert = "none"
    /\ \E a, b \in 1..Len(ret) : a # b /\ Range(ret[a]) \cap Range(ret[b]) # {}
    /\ Len(segments) >= 8


\* C30: remove_internal_edge_points, normalized_perimeter and
\* triangulate_walls leave the lists they are given as they were and return
\* another list object; remove_contiguous_values, which changes the list it
\* is given, has only been applied to the new list of normalized_perimeter.
C30_ArgumentsUnchanged ==
    /\ fpc \in {"returned remove_internal_edge_points", "returned normalized_perimeter",
                "returned triangulate_walls"}
         => /\ heap["arg"] = heap_before["arg"]
            /\ result # "arg"
    /\ fpc = "returned remove_internal_edge_points"
         => /\ result = "ret"
            /\ heap["ret"] = remove_internal_edge_points(heap_before["arg"])
    /\ fpc = "returned normalized_perimeter"
         => /\ result = "ret"
            /\ heap["ret"] = normalized_perimeter(heap_before["arg"])
            /\ heap["ret"] = remove_contiguous_values(heap["deq"])
    /\ fpc = "returned remove_contiguous_values"
         => /\ result = "None"
            /\ heap["arg"] = remove_contiguous_values(heap_before["arg"])

\* normalized_perimeter has returned from a call where the rotation moved
\* the points and remove_contiguous_values deleted one from the new list.
C30_Witness ==
    /\ fpc = "returned normalized_perimeter"
    /\ heap["arg"] = heap_before["arg"]
    /\ heap["deq"][1] # heap["arg"][1]
    /\ Len(heap["ret"]) < Len(heap["deq"])

====
